---------------------------- MODULE Spec2Model ----------------------------
(***************************************************************************)
(* Tark: geographic bounding box -> terrain + buildings -> merged scene.   *)
(*                                                                         *)
(* Several state machines share this module.                               *)
(*   Spec          the mesh core of one generation job: terrain build,     *)
(*                 per-footprint extrusion with elevation sampling, merge. *)
(*   SpecValidate  the frontend's bounding-box validation                  *)
(*                 (calculateAreaSize / validateBboxSize of lib/api.ts).   *)
(*   SpecGenerate  the frontend's generateMesh call against the backend.   *)
(*   SpecJob       a submitted job: input checks, then the mesh core.      *)
(*   SpecWorkers   the mesh core with the terrain built in two steps and   *)
(*                 the footprints extruded by parallel workers.            *)
(*   SpecExport    the mesh core followed by the export of the scene.      *)
(*   SpecMultiRing the mesh core on footprints with several outer rings.   *)
(*   SpecGenerateLive  generateMesh with a backend that answers.           *)
(*   SpecButton    the DownloadButton component around generateMesh.       *)
(*   SpecButtonLive  the same with a backend that answers.                 *)
(*   SpecSelector  the BoundsSelector of the map.                          *)
(*                                                                         *)
(* Units of the mesh core: horizontal lengths (x, z, distances in the      *)
(* ground plane) are integer METRES, so that the 50 m sampling limit is 50 *)
(* and the accepted bounding-box sides are 1000..5000; vertical lengths    *)
(* (y, elevations, building heights) are integer DECIMETRES, so that 3.5 m *)
(* per level is 35.  Geodetic coordinates are integers in metres of arc:   *)
(* one unit of latitude is 1/111000 of a degree, one unit of longitude is  *)
(* the same divided by cos(center_lat), so that the metre conversion of    *)
(* docs/logic/coordinates.md is a difference from the centre followed by   *)
(* the negation.                                                           *)
(* Face indices are 0-based as in the mesh arrays; TLA+ sequences are      *)
(* 1-based, so vertex index i is element i+1 of a vertex sequence.         *)
(***************************************************************************)
EXTENDS Integers, Sequences, FiniteSets, TLC

VARIABLES
    \* ---- mesh core (one generation job) ----
    pc,               \* phase of the job
    elevation_data,   \* provider elevation grid, row 1 = northern edge
    bbox,             \* geodetic bounding box of the grid
    config,           \* smoothing sigma and the configurable default height
    building_data,    \* input footprint list
    terrain,          \* TerrainMesh with its grid metadata, or NoTerrain
    building_meshes,  \* extrusion results, index-aligned with building_data
    samples,          \* per processed footprint: what the sampler was asked and answered
    stats,            \* failure reasons recorded so far, in processing order
    scene,            \* merged scene, or NoScene
    grid_shape,       \* the (rows, cols) the elevation grid is declared to have
    error,            \* the job's top-level error, or NoError
    workers,          \* extrusion workers: what each is doing, when footprints are extruded in parallel
    export_result,    \* what export returned: the written file or an ExportError, or NoExport
    \* ---- frontend bounding-box validation ----
    bounds,           \* selected bounds, in millionths of a degree
    validation,       \* result of validateBboxSize(bounds), or NotValidated
    \* ---- frontend generateMesh(bbox, quality, onProgress) ----
    gm_pc,            \* position of the call: idle, start, polling, download, resolved, rejected
    client_job_id,    \* the job id the client generated
    job_id,           \* the job id of the /generate response
    progress,         \* the last ProgressInfo handed to onProgress (the button's progress state)
    requests,         \* the requests sent so far, each with the reply it got
    on_progress,      \* whether the caller passed an onProgress callback
    link_clicked,     \* whether the call has clicked the download link
    \* ---- frontend DownloadButton component ----
    isGenerating,     \* state isGenerating
    buttonError,      \* state error: the message shown, or NoMessage
    timers,           \* number of pending setTimeout(() => setProgress(null), 2000)
    in_flight,        \* number of generateMesh calls not yet settled
    generations,      \* number of generations started so far
    \* ---- frontend BoundsSelector component ----
    isDrawing,        \* state isDrawing
    startPoint,       \* state startPoint, or NoPoint
    dragging,         \* whether map dragging is enabled
    selection,        \* state bounds of the selector (the rectangle drawn), or NoBounds
    calls,            \* the arguments of the onBoundsChange calls made so far
    last_event,       \* the last map event handled
    on_bounds_change  \* whether the selector was given an onBoundsChange callback

coreVars == <<pc, elevation_data, bbox, config, building_data, terrain,
              building_meshes, samples, stats, scene, grid_shape, error, workers,
              export_result>>
buttonVars == <<isGenerating, buttonError, timers, in_flight, generations>>
selectorVars == <<isDrawing, startPoint, dragging, selection, calls, last_event,
                  on_bounds_change>>
frontVars == <<bounds, validation, buttonVars, selectorVars>>
genVars == <<gm_pc, client_job_id, job_id, progress, requests, on_progress, link_clicked>>
vars == <<pc, elevation_data, bbox, config, building_data, terrain,
          building_meshes, samples, stats, scene, grid_shape, error, workers,
          export_result, bounds, validation,
          gm_pc, client_job_id, job_id, progress, requests,
          on_progress, link_clicked, isGenerating, buttonError, timers, in_flight,
          generations, isDrawing, startPoint, dragging, selection, calls, last_event,
          on_bounds_change>>

-----------------------------------------------------------------------------
(* Bounds of the model *)

\* largest number of grid rows / columns of an elevation grid
MaxRows == 3
MaxCols == 3
\* largest number of input footprints of a job
MaxFootprints == 2

-----------------------------------------------------------------------------
(* Small arithmetic helpers *)

Abs(n) == IF n < 0 THEN -n ELSE n

Min(a, b) == IF a < b THEN a ELSE b

Max(a, b) == IF a > b THEN a ELSE b

RECURSIVE SumTo(_, _)
\* f[1] + ... + f[n]
SumTo(f, n) == IF n = 0 THEN 0 ELSE f[n] + SumTo(f, n - 1)

RECURSIVE ISqrtFrom(_, _, _)
\* integer square root by bisection on [lo, hi]
ISqrtFrom(n, lo, hi) ==
    IF lo >= hi THEN lo
    ELSE LET mid == (lo + hi + 1) \div 2
         IN  IF mid * mid <= n THEN ISqrtFrom(n, mid, hi)
                               ELSE ISqrtFrom(n, lo, mid - 1)

\* floor of the square root (n < 2^30)
ISqrt(n) == ISqrtFrom(n, 0, 32767)

-----------------------------------------------------------------------------
(* CoordinateTransformer *)

\* centre of the bounding box: becomes (0, 0) of the local metre space
CenterOf(b) == [lat |-> (b.north + b.south) \div 2, lon |-> (b.east + b.west) \div 2]

\* lat/lon -> local x/z: offset from the centre, then x and z are negated
ToLocal(b, lat, lon) ==
    [x |-> -(lon - CenterOf(b).lon), z |-> -(lat - CenterOf(b).lat)]


-----------------------------------------------------------------------------
(* Elevation grids of the provider (inputs) *)

\* the terrain inputs of a job: kind of relief, spacing of the grid points in
\* metres (bounding boxes of 1000 m to 2500 m a side), smoothing sigma
TerrainCases ==
    { [kind |-> "gentle", spacing |-> 1000, sigma |-> 0],
      [kind |-> "gentle", spacing |-> 1250, sigma |-> 1],
      [kind |-> "cliff",  spacing |-> 1000, sigma |-> 1],
      [kind |-> "cliff",  spacing |-> 1250, sigma |-> 0],
      [kind |-> "peak",   spacing |-> 1000, sigma |-> 0] }

\* elevation of provider row r, column c (0-based; row 0 = northern edge), decimetres
ElevationAt(kind, r, c) ==
    CASE kind = "gentle" -> 10 * r + 3 * c
      [] kind = "cliff"  -> IF c = 0 THEN 10 * r ELSE 400 + 10 * r
      [] OTHER           -> IF r = 1 /\ c = 1 THEN 100 ELSE 0

ProviderGrid(kind, R, C) ==
    [r \in 1..R |-> [c \in 1..C |-> ElevationAt(kind, r - 1, c - 1)]]

\* the bbox a grid of R x C points with the given spacing covers
BboxOf(R, C, spacing) ==
    [south |-> 0, north |-> spacing * (R - 1), west |-> 0, east |-> spacing * (C - 1)]

NumRows(grid) == Len(grid)

NumCols(grid) == Len(grid[1])

-----------------------------------------------------------------------------
(* TerrainMeshBuilder *)

\* index reflected into 1..n (the blur's edge handling: d c b a | a b c d)
Reflect(i, n) == IF i < 1 THEN 1 ELSE IF i > n THEN n ELSE i

\* separable blur of the elevation grid; sigma = 0 disables smoothing.  The
\* Gaussian kernel is modelled by its 3-tap integer form [1 2 1] / 4 per axis.
Smooth(grid, sigma) ==
    IF sigma = 0 THEN grid
    ELSE LET R == NumRows(grid)
             C == NumCols(grid)
             k(d) == IF d = 0 THEN 2 ELSE 1
             at(r, c) == grid[Reflect(r, R)][Reflect(c, C)]
             acc(r, c) ==
                 k(-1) * (k(-1) * at(r - 1, c - 1) + k(0) * at(r - 1, c) + k(1) * at(r - 1, c + 1))
               + k(0)  * (k(-1) * at(r, c - 1)     + k(0) * at(r, c)     + k(1) * at(r, c + 1))
               + k(1)  * (k(-1) * at(r + 1, c - 1) + k(0) * at(r + 1, c) + k(1) * at(r + 1, c + 1))
         IN  [r \in 1..R |-> [c \in 1..C |-> acc(r, c) \div 16]]

\* the flip applied a second time: the rows are back in the provider's order
FlipUdTwice(grid) ==
    [r \in 1..NumRows(grid) |->
        [q \in 1..NumRows(grid) |-> grid[NumRows(grid) + 1 - q]][NumRows(grid) + 1 - r]]

\* np.flipud: provider row 0 (north) becomes the last row, so that row 0 of the
\* array used for the vertices is the southern edge
FlipUd(grid) == [r \in 1..NumRows(grid) |-> grid[NumRows(grid) + 1 - r]]

\* np.linspace(lo, hi, n)[i], i 0-based
Linspace(lo, hi, n, i) == lo + (i * (hi - lo)) \div (n - 1)

\* one row of vertices (x, elevation, z): row r (0-based), all columns
VertexRow(b, elev, r) ==
    [j \in 1..NumCols(elev) |->
        LET p == ToLocal(b, Linspace(b.south, b.north, NumRows(elev), r),
                            Linspace(b.west, b.east, NumCols(elev), j - 1))
        IN  [x |-> p.x, y |-> elev[r + 1][j], z |-> p.z]]

RECURSIVE VerticesFrom(_, _, _)
\* the rows r, r+1, ... of the grid, flattened row-major
VerticesFrom(b, elev, r) ==
    IF r >= NumRows(elev) THEN << >>
    ELSE VertexRow(b, elev, r) \o VerticesFrom(b, elev, r + 1)

\* vertices of the whole grid, row-major, row 0 = southern edge
GridVertices(b, elev) == VerticesFrom(b, elev, 0)

\* a cell covered by its first triangle only
CellTrianglesFirstOnly(r, c, C) ==
    << <<r * C + c, r * C + c + 1, (r + 1) * C + c>> >>

\* the cell split along its other diagonal: [v0, v1, v3] and [v0, v3, v2]
CellTrianglesOtherDiagonal(r, c, C) ==
    << <<r * C + c, r * C + c + 1, (r + 1) * C + c + 1>>,
       <<r * C + c, (r + 1) * C + c + 1, (r + 1) * C + c>> >>

\* the two triangles of cell (r, c): t1 = [v0, v1, v2], t2 = [v1, v3, v2]
CellTriangles(r, c, C) ==
    LET v0 == r * C + c
        v1 == r * C + c + 1
        v2 == (r + 1) * C + c
        v3 == (r + 1) * C + c + 1
    IN  << <<v0, v1, v2>>, <<v1, v3, v2>> >>

RECURSIVE FacesFrom(_, _, _, _)
\* the faces of the cells from (r, c) on, cell by cell in row-major order
FacesFrom(r, c, R, C) ==
    IF r >= R - 1 THEN << >>
    ELSE IF c >= C - 1 THEN FacesFrom(r + 1, 0, R, C)
    ELSE CellTriangles(r, c, C) \o FacesFrom(r, c + 1, R, C)

\* faces of the grid: two triangles for each of the (R-1) x (C-1) cells
Triangulate(R, C) == FacesFrom(0, 0, R, C)

\* mean of the x (axis = "x") or z values of the vertices
MeanOf(vertices, axis) ==
    SumTo([i \in 1..Len(vertices) |-> IF axis = "x" THEN vertices[i].x ELSE vertices[i].z],
          Len(vertices)) \div Len(vertices)

\* centring on all three axes: y is shifted by its mean as well
RecenterAllAxes(vertices, off) ==
    [i \in 1..Len(vertices) |->
        [x |-> vertices[i].x - off.x,
         y |-> vertices[i].y
                 - SumTo([k \in 1..Len(vertices) |-> vertices[k].y], Len(vertices))
                     \div Len(vertices),
         z |-> vertices[i].z - off.z]]

\* centring on x and z only; y is preserved
Recenter(vertices, off) ==
    [i \in 1..Len(vertices) |->
        [x |-> vertices[i].x - off.x, y |-> vertices[i].y, z |-> vertices[i].z - off.z]]

NoTerrain == [tag |-> "None"]

\* the terrain mesh with its grid metadata
GenerateTerrain(grid, b, sigma) ==
    LET elev == FlipUd(Smooth(grid, sigma))
        raw  == GridVertices(b, elev)
        off  == [x |-> MeanOf(raw, "x"), z |-> MeanOf(raw, "z")]
    IN  [tag       |-> "terrain",
         vertices  |-> Recenter(raw, off),
         faces     |-> Triangulate(NumRows(grid), NumCols(grid)),
         grid_dims |-> [rows |-> NumRows(grid), cols |-> NumCols(grid)],
         bounds    |-> b,
         elevation |-> elev,
         offset    |-> off]

-----------------------------------------------------------------------------
(* ElevationSampler: built from the terrain's grid metadata *)

\* number of nearest terrain vertices searched
NeighborCount == 16
\* elevation variance above which the closest vertex is used: 15 m^2, in dm^2
VarianceThreshold == 1500
\* a point farther than 50 m from the nearest terrain vertex is dropped
MaxDistance == 50
\* scale of the inverse-distance weights (weight = IdwScale / distance)
IdwScale == 100000

\* local (x, z) of grid vertex (r, c), 0-based: vertex r * cols + c of the mesh
VertexPos(t, r, c) ==
    [x |-> t.vertices[r * t.grid_dims.cols + c + 1].x,
     z |-> t.vertices[r * t.grid_dims.cols + c + 1].z]

\* elevation of grid vertex (r, c) in the array the vertices were built from
VertexElevation(t, r, c) == t.elevation[r + 1][c + 1]

\* grid step along the rows (z) and the columns (x), as positive lengths
StepZ(t) == (VertexPos(t, 0, 0).z - VertexPos(t, t.grid_dims.rows - 1, 0).z)
                \div (t.grid_dims.rows - 1)

StepX(t) == (VertexPos(t, 0, 0).x - VertexPos(t, 0, t.grid_dims.cols - 1).x)
                \div (t.grid_dims.cols - 1)

\* the point lies within the extent of the grid
InGrid(t, x, z) ==
    LET dz == VertexPos(t, 0, 0).z - z
        dx == VertexPos(t, 0, 0).x - x
    IN  /\ 0 <= dz /\ dz <= StepZ(t) * (t.grid_dims.rows - 1)
        /\ 0 <= dx /\ dx <= StepX(t) * (t.grid_dims.cols - 1)

\* inverse of the grid's affine spacing: the cell (row, col) of a point in the
\* grid; a point on the last row/column of vertices belongs to the last cell
CellOf(t, x, z) ==
    [row |-> Min((VertexPos(t, 0, 0).z - z) \div StepZ(t), t.grid_dims.rows - 2),
     col |-> Min((VertexPos(t, 0, 0).x - x) \div StepX(t), t.grid_dims.cols - 2)]

\* twice the signed area of triangle (a, b, p) in the x/z plane
Cross(a, b, p) == (b.x - a.x) * (p.z - a.z) - (b.z - a.z) * (p.x - a.x)

\* unnormalised barycentric coordinates of p in triangle (a, b, c); they sum to d
BaryWeights(a, b, c, p) ==
    [wa |-> Cross(b, c, p), wb |-> Cross(c, a, p), wc |-> Cross(a, b, p),
     d  |-> Cross(a, b, c)]

\* p lies in triangle (a, b, c), edges included
InTriangle(a, b, c, p) ==
    LET w == BaryWeights(a, b, c, p)
    IN  \/ (w.d > 0 /\ w.wa >= 0 /\ w.wb >= 0 /\ w.wc >= 0)
        \/ (w.d < 0 /\ w.wa <= 0 /\ w.wb <= 0 /\ w.wc <= 0)

\* barycentric interpolation of the elevations ea, eb, ec at p
Barycentric(a, b, c, ea, eb, ec, p) ==
    LET w == BaryWeights(a, b, c, p)
        s == IF w.d < 0 THEN -1 ELSE 1
    IN  (s * (w.wa * ea + w.wb * eb + w.wc * ec)) \div (s * w.d)

\* grid coordinates (r, c) of the corners of triangle k (1 or 2) of a cell:
\* t1 = [v0, v1, v2], t2 = [v1, v3, v2]
TriangleCorners(cell, k) ==
    IF k = 1
    THEN << [r |-> cell.row, c |-> cell.col], [r |-> cell.row, c |-> cell.col + 1],
            [r |-> cell.row + 1, c |-> cell.col] >>
    ELSE << [r |-> cell.row, c |-> cell.col + 1], [r |-> cell.row + 1, c |-> cell.col + 1],
            [r |-> cell.row + 1, c |-> cell.col] >>

\* triangle k of the cell contains the point
CellTriangleContains(t, cell, k, p) ==
    LET g == TriangleCorners(cell, k)
    IN  InTriangle(VertexPos(t, g[1].r, g[1].c), VertexPos(t, g[2].r, g[2].c),
                   VertexPos(t, g[3].r, g[3].c), p)

\* elevation interpolated in triangle k of the cell
CellTriangleElevation(t, cell, k, p) ==
    LET g == TriangleCorners(cell, k)
    IN  Barycentric(VertexPos(t, g[1].r, g[1].c), VertexPos(t, g[2].r, g[2].c),
                    VertexPos(t, g[3].r, g[3].c),
                    VertexElevation(t, g[1].r, g[1].c), VertexElevation(t, g[2].r, g[2].c),
                    VertexElevation(t, g[3].r, g[3].c), p)

\* strategy 1: the triangle of the point's own cell, if there is one
ContainingTriangle(t, p) ==
    IF ~InGrid(t, p.x, p.z) THEN 0
    ELSE IF CellTriangleContains(t, CellOf(t, p.x, p.z), 1, p) THEN 1
    ELSE IF CellTriangleContains(t, CellOf(t, p.x, p.z), 2, p) THEN 2
    ELSE 0

\* all grid vertices, as 0-based flat indices r * cols + c
VertexIds(t) == 0..(t.grid_dims.rows * t.grid_dims.cols - 1)

VertexPosOf(t, v) == VertexPos(t, v \div t.grid_dims.cols, v % t.grid_dims.cols)

VertexElevationOf(t, v) == VertexElevation(t, v \div t.grid_dims.cols, v % t.grid_dims.cols)

\* squared distance in the x/z plane from p to every grid vertex
Dist2(t, p) ==
    [v \in VertexIds(t) |->
        (VertexPosOf(t, v).x - p.x) * (VertexPosOf(t, v).x - p.x)
      + (VertexPosOf(t, v).z - p.z) * (VertexPosOf(t, v).z - p.z)]

\* v is nearer than u in the distance table d2 (ties broken by index)
Nearer(d2, v, u) == d2[v] < d2[u] \/ (d2[v] = d2[u] /\ v < u)

\* the NeighborCount nearest grid vertices
NearestVertices(d2) ==
    {v \in DOMAIN d2 : Cardinality({u \in DOMAIN d2 : Nearer(d2, u, v)}) < NeighborCount}

\* the single nearest grid vertex
NearestVertex(d2) ==
    CHOOSE v \in DOMAIN d2 : \A u \in DOMAIN d2 : u = v \/ Nearer(d2, v, u)

RECURSIVE SumOver(_, _)
\* sum of f[v] over the finite set S
SumOver(f, S) ==
    IF S = {} THEN 0
    ELSE LET v == CHOOSE u \in S : TRUE IN f[v] + SumOver(f, S \ {v})

\* variance of the elevations of the candidate vertices
ElevationVariance(t, cand) ==
    LET n    == Cardinality(cand)
        mean == SumOver([v \in cand |-> VertexElevationOf(t, v)], cand) \div n
    IN  SumOver([v \in cand |-> (VertexElevationOf(t, v) - mean)
                                 * (VertexElevationOf(t, v) - mean)], cand) \div n

\* inverse-distance-weighted average of the candidates' elevations
InverseDistanceWeighted(t, cand, d2) ==
    LET w == [v \in cand |-> IdwScale \div Max(ISqrt(d2[v]), 1)]
    IN  SumOver([v \in cand |-> w[v] * VertexElevationOf(t, v)], cand)
            \div SumOver(w, cand)

\* the fallback without the variance check: the weighted average is always used
FallbackElevationAlwaysWeighted(t, p) ==
    LET d2      == Dist2(t, p)
        cand    == NearestVertices(d2)
        nearest == NearestVertex(d2)
    IN  IF d2[nearest] > MaxDistance * MaxDistance
        THEN [ok |-> FALSE, value |-> 0, method |-> "out_of_bounds"]
        ELSE [ok |-> TRUE, value |-> InverseDistanceWeighted(t, cand, d2), method |-> "idw"]

\* strategies 2-4, used when no containing triangle was found
FallbackElevation(t, p) ==
    LET d2      == Dist2(t, p)
        cand    == NearestVertices(d2)
        nearest == NearestVertex(d2)
    IN  IF d2[nearest] > MaxDistance * MaxDistance
        THEN [ok |-> FALSE, value |-> 0, method |-> "out_of_bounds"]
        ELSE IF ElevationVariance(t, cand) > VarianceThreshold
        THEN [ok |-> TRUE, value |-> VertexElevationOf(t, nearest), method |-> "nearest"]
        ELSE [ok |-> TRUE, value |-> InverseDistanceWeighted(t, cand, d2), method |-> "idw"]

\* the strategies in the wrong order: the nearest-vertex fallback tried first
SampleElevationFallbackFirst(t, p) ==
    IF FallbackElevation(t, p).ok
    THEN FallbackElevation(t, p)
    ELSE IF ContainingTriangle(t, p) # 0
    THEN [ok |-> TRUE,
          value  |-> CellTriangleElevation(t, CellOf(t, p.x, p.z), ContainingTriangle(t, p), p),
          method |-> "barycentric"]
    ELSE FallbackElevation(t, p)

\* sampleElevation(x, z): the strategies in order, first success wins
SampleElevation(t, p) ==
    IF ContainingTriangle(t, p) # 0
    THEN [ok |-> TRUE,
          value  |-> CellTriangleElevation(t, CellOf(t, p.x, p.z), ContainingTriangle(t, p), p),
          method |-> "barycentric"]
    ELSE FallbackElevation(t, p)

-----------------------------------------------------------------------------
(* Building footprints (inputs) *)

\* an optional value is a sequence of length 0 (absent) or 1 (present)
Absent == << >>

Some(v) == <<v>>

\* a closed triangular ring whose centroid is (lat, lon)
Tri(lat, lon) ==
    << [lat |-> lat - 20, lon |-> lon - 20], [lat |-> lat + 40, lon |-> lon - 20],
       [lat |-> lat - 20, lon |-> lon + 40], [lat |-> lat - 20, lon |-> lon - 20] >>

\* an open rectangular ring whose centroid is (lat, lon)
Rect(lat, lon) ==
    << [lat |-> lat - 30, lon |-> lon - 30], [lat |-> lat + 30, lon |-> lon - 30],
       [lat |-> lat + 30, lon |-> lon + 30], [lat |-> lat - 30, lon |-> lon + 30] >>

\* a ring whose points are collinear: it encloses no area
Flat(lat, lon) ==
    << [lat |-> lat, lon |-> lon], [lat |-> lat + 20, lon |-> lon + 20],
       [lat |-> lat + 40, lon |-> lon + 40], [lat |-> lat, lon |-> lon] >>

Footprint(rings, height, levels, type, extrude_ok) ==
    [rings |-> rings, height |-> height, levels |-> levels, building_type |-> type,
     extrude_ok |-> extrude_ok]

\* the footprints a job's building list is drawn from
FootprintCatalogue ==
    { Footprint(<<Tri(0, 0)>>, Some(120), Some(40), "office", TRUE),
      Footprint(<<Tri(100, 70)>>, Absent, Some(2), "house", TRUE),
      Footprint(<<Rect(600, 600)>>, Absent, Absent, "house", TRUE),
      Footprint(<<Tri(-20, 10)>>, Absent, Absent, "residential", TRUE),
      Footprint(<<Tri(-3000, -3000)>>, Absent, Absent, "office", TRUE),
      Footprint(<<Flat(-3000, -3000)>>, Some(90), Absent, "residential", TRUE),
      Footprint(<<Tri(150, 150)>>, Absent, Absent, "office", FALSE) }

\* the lists of at most n distinct footprints of S
SeqsUpTo(S, n) ==
    UNION {{q \in [1..k -> S] : \A i, j \in 1..k : q[i] = q[j] => i = j} : k \in 0..n}

-----------------------------------------------------------------------------
(* BuildingExtruder *)

\* metres per building level, in decimetres
LevelHeight == 35

\* building-type default table, in decimetres; other types use the configured default
TypeDefaultHeight(type, default) ==
    CASE type = "residential" -> 80
      [] type = "house"       -> 60
      [] type = "office"      -> 250
      [] OTHER                -> default

\* height estimation with the level count taking precedence over the height tag
EstimateHeightLevelsFirst(fp, default) ==
    IF fp.levels # Absent THEN fp.levels[1] * LevelHeight
    ELSE IF fp.height # Absent THEN fp.height[1]
    ELSE TypeDefaultHeight(fp.building_type, default)

\* height estimation: explicit height, else levels * 3.5 m, else the type default
EstimateHeight(fp, default) ==
    IF fp.height # Absent THEN fp.height[1]
    ELSE IF fp.levels # Absent THEN fp.levels[1] * LevelHeight
    ELSE TypeDefaultHeight(fp.building_type, default)

\* a ring in local x/z: every point through the transformer used for the
\* terrain, then the terrain's centring offset
LocalRing(t, ring) ==
    [i \in 1..Len(ring) |->
        [x |-> ToLocal(t.bounds, ring[i].lat, ring[i].lon).x - t.offset.x,
         z |-> ToLocal(t.bounds, ring[i].lat, ring[i].lon).z - t.offset.z]]

RECURSIVE Dedup(_)
\* removes consecutive duplicate points
Dedup(ring) ==
    IF Len(ring) <= 1 THEN ring
    ELSE IF ring[1] = ring[2] THEN Dedup(Tail(ring))
    ELSE <<ring[1]>> \o Dedup(Tail(ring))

\* ring repair: duplicate points removed; the ring is kept as its distinct
\* corners in order (the closing point is implied)
RepairRing(ring) ==
    LET d == Dedup(ring)
    IN  IF Len(d) >= 2 /\ d[1] = d[Len(d)] THEN SubSeq(d, 1, Len(d) - 1) ELSE d

\* successor index around a ring of n corners
NextIdx(i, n) == IF i = n THEN 1 ELSE i + 1

\* twice the signed area of a repaired ring, relative to origin o (shoelace)
RingArea2(ring, o) ==
    SumTo([i \in 1..Len(ring) |->
              (ring[i].x - o.x) * (ring[NextIdx(i, Len(ring))].z - o.z)
            - (ring[NextIdx(i, Len(ring))].x - o.x) * (ring[i].z - o.z)],
          Len(ring))

\* first moments of a repaired ring about origin o (six times area times centroid)
RingMoment(ring, o, axis) ==
    SumTo([i \in 1..Len(ring) |->
              LET a == ring[i]
                  b == ring[NextIdx(i, Len(ring))]
                  cr == (a.x - o.x) * (b.z - o.z) - (b.x - o.x) * (a.z - o.z)
              IN  (IF axis = "x" THEN (a.x - o.x) + (b.x - o.x)
                                 ELSE (a.z - o.z) + (b.z - o.z)) * cr],
          Len(ring))

\* the geometry is usable: every outer ring has at least 3 corners and encloses area
ValidGeometry(rings) ==
    /\ Len(rings) >= 1
    /\ \A k \in 1..Len(rings) :
          /\ Len(rings[k]) >= 3
          /\ RingArea2(rings[k], rings[k][1]) # 0

\* 2D centroid of the (possibly multi-ring) footprint, area-weighted
Centroid(rings) ==
    LET o  == rings[1][1]
        a2 == SumTo([k \in 1..Len(rings) |-> RingArea2(rings[k], o)], Len(rings))
        mx == SumTo([k \in 1..Len(rings) |-> RingMoment(rings[k], o, "x")], Len(rings))
        mz == SumTo([k \in 1..Len(rings) |-> RingMoment(rings[k], o, "z")], Len(rings))
        s  == IF a2 < 0 THEN -1 ELSE 1
    IN  [x |-> o.x + (s * mx) \div (3 * s * a2), z |-> o.z + (s * mz) \div (3 * s * a2)]

\* the point the terrain is asked about for a centroid: target_z = -centroid_z
SampleTarget(centroid) == [x |-> centroid.x, z |-> -centroid.z]

\* the bounding box of all rings, as one rectangular ring (the fallback shape
\* when the polygon extrusion itself fails)
BoundingRing(rings) ==
    LET pts == UNION {{rings[k][i] : i \in 1..Len(rings[k])} : k \in 1..Len(rings)}
        x0  == CHOOSE v \in {p.x : p \in pts} : \A p \in pts : v <= p.x
        x1  == CHOOSE v \in {p.x : p \in pts} : \A p \in pts : v >= p.x
        z0  == CHOOSE v \in {p.z : p \in pts} : \A p \in pts : v <= p.z
        z1  == CHOOSE v \in {p.z : p \in pts} : \A p \in pts : v >= p.z
    IN  << [x |-> x0, z |-> z0], [x |-> x1, z |-> z0],
           [x |-> x1, z |-> z1], [x |-> x0, z |-> z1] >>

\* closed prism over one ring of n corners: n bottom vertices at the base
\* elevation, n top vertices at base + height, two caps and the walls
ExtrudeRing(ring, base, height) ==
    LET n == Len(ring)
    IN  [vertices |->
            [i \in 1..(2 * n) |->
                IF i <= n THEN [x |-> ring[i].x, y |-> base, z |-> ring[i].z]
                ELSE [x |-> ring[i - n].x, y |-> base + height, z |-> ring[i - n].z]],
         faces |->
            [k \in 1..(n - 2) |-> <<0, k + 1, k>>]
         \o [k \in 1..(n - 2) |-> <<n, n + k, n + k + 1>>]
         \o [m \in 1..(2 * n) |->
                LET i == (m - 1) \div 2
                    j == (i + 1) % n
                IN  IF (m - 1) % 2 = 0 THEN <<i, j, n + j>> ELSE <<i, n + j, n + i>>]]

-----------------------------------------------------------------------------
(* Mesh concatenation (used for multi-ring buildings and for the scene) *)

EmptyMesh == [vertices |-> << >>, faces |-> << >>]

\* face indices copied without the vertex offset
ShiftFacesNoOffset(faces, offset) ==
    [i \in 1..Len(faces) |-> [k \in 1..3 |-> faces[i][k]]]

\* face indices moved by the number of vertices that precede the sub-mesh
ShiftFaces(faces, offset) ==
    [i \in 1..Len(faces) |-> [k \in 1..3 |-> faces[i][k] + offset]]

\* one sub-mesh appended to the buffers accumulated so far
AppendMesh(acc, m) ==
    [vertices |-> acc.vertices \o m.vertices,
     faces    |-> acc.faces \o ShiftFaces(m.faces, Len(acc.vertices))]

RECURSIVE ConcatenateFrom(_, _)
\* the sub-meshes appended in order to acc
ConcatenateFrom(meshes, acc) ==
    IF meshes = << >> THEN acc
    ELSE ConcatenateFrom(Tail(meshes), AppendMesh(acc, Head(meshes)))

Concatenate(meshes) == ConcatenateFrom(meshes, EmptyMesh)

-----------------------------------------------------------------------------
(* extrude(footprint, sampler) *)

NoneMesh == [tag |-> "None"]

NoSample == [sampled |-> FALSE, centroid |-> [x |-> 0, z |-> 0],
             query |-> [x |-> 0, z |-> 0],
             result |-> [ok |-> FALSE, value |-> 0, method |-> "none"]]

\* only the first outer ring is extruded
ShapesOfFirstRing(fp, rings) ==
    IF fp.extrude_ok THEN <<rings[1]>> ELSE <<BoundingRing(<<rings[1]>>)>>

\* the shapes to extrude: every outer ring, each on its own; a ring whose
\* polygon extrusion fails is replaced by its bounding box
ShapesOf(fp, rings) ==
    IF fp.extrude_ok THEN rings
    ELSE [k \in 1..Len(rings) |-> BoundingRing(<<rings[k]>>)]

\* result of extruding footprint number idx (1-based position in the input
\* list): the mesh or NoneMesh, the failure reason, and the sample taken
Extrude(fp, idx, t, default) ==
    LET rings == [k \in 1..Len(fp.rings) |-> RepairRing(LocalRing(t, fp.rings[k]))]
    IN  IF ~ValidGeometry(rings)
        THEN [mesh |-> NoneMesh, reason |-> "InvalidGeometry", sample |-> NoSample]
        ELSE
        LET centroid == Centroid(rings)
            query    == SampleTarget(centroid)
            res      == SampleElevation(t, query)
            smp      == [sampled |-> TRUE, centroid |-> centroid, query |-> query,
                         result |-> res]
            shapes   == ShapesOf(fp, rings)
            height   == EstimateHeight(fp, default)
            solid    == Concatenate([k \in 1..Len(shapes) |->
                                        ExtrudeRing(shapes[k], res.value, height)])
        IN  IF ~res.ok
            THEN [mesh |-> NoneMesh, reason |-> "OutOfBounds", sample |-> smp]
            ELSE [mesh |-> [tag |-> "mesh", source |-> idx,
                            vertices |-> solid.vertices, faces |-> solid.faces,
                            base_elevation |-> res.value, height |-> height],
                  reason |-> "", sample |-> smp]

-----------------------------------------------------------------------------
(* MeshMerger *)

NoScene == [tag |-> "None"]

IsMesh(m) == m.tag = "mesh"

\* terrain first, then every non-null building mesh in input order
Merge(t, buildings) ==
    LET parts  == <<[vertices |-> t.vertices, faces |-> t.faces]>>
                  \o SelectSeq(buildings, IsMesh)
        merged == Concatenate([k \in 1..Len(parts) |->
                                  [vertices |-> parts[k].vertices, faces |-> parts[k].faces]])
    IN  [tag |-> "scene", vertices |-> merged.vertices, faces |-> merged.faces,
         terrain_faces |-> Len(t.faces)]

-----------------------------------------------------------------------------
(* The generation job *)

NoBounds == [tag |-> "None"]

NoProgress == [tag |-> "None"]

NoError == [tag |-> "None"]

NoExport == [tag |-> "None"]

\* no top-level error, no parallel workers, nothing exported
JobExtrasIdle ==
    /\ error = NoError
    /\ workers = << >>
    /\ export_result = NoExport

\* no generateMesh call is under way
GenerateIdle ==
    /\ gm_pc = "idle"
    /\ client_job_id = ""
    /\ job_id = ""
    /\ progress = NoProgress
    /\ requests = << >>
    /\ on_progress = FALSE
    /\ link_clicked = FALSE

NoMessage == [tag |-> "None"]

NoPoint == [tag |-> "None"]

NoEvent == [tag |-> "None"]

\* the DownloadButton as mounted: nothing generating, no error, no timer
ButtonIdle ==
    /\ isGenerating = FALSE
    /\ buttonError = NoMessage
    /\ timers = 0
    /\ in_flight = 0
    /\ generations = 0

\* the BoundsSelector as mounted: not drawing, map dragging enabled
SelectorIdle ==
    /\ isDrawing = FALSE
    /\ startPoint = NoPoint
    /\ dragging = TRUE
    /\ selection = NoBounds
    /\ calls = << >>
    /\ last_event = NoEvent
    /\ on_bounds_change = FALSE

UiIdle == ButtonIdle /\ SelectorIdle

NotValidated == [tag |-> "None"]

Init ==
    /\ pc = "start"
    /\ \E R \in 2..MaxRows, C \in 2..MaxCols, tc \in TerrainCases :
          /\ elevation_data = ProviderGrid(tc.kind, R, C)
          /\ grid_shape = [rows |-> R, cols |-> C]
          /\ bbox = BboxOf(R, C, tc.spacing)
          /\ config = [sigma |-> tc.sigma, default_height |-> 100]
    /\ building_data \in SeqsUpTo(FootprintCatalogue, MaxFootprints)
    /\ terrain = NoTerrain
    /\ building_meshes = << >>
    /\ samples = << >>
    /\ stats = << >>
    /\ scene = NoScene
    /\ JobExtrasIdle
    /\ bounds = NoBounds
    /\ validation = NotValidated
    /\ UiIdle
    /\ GenerateIdle

\* terrain generation: smoothing, flip, vertices, faces, centring
BuildTerrain ==
    /\ pc = "start"
    /\ terrain' = GenerateTerrain(elevation_data, bbox, config.sigma)
    /\ pc' = "extruding"
    /\ UNCHANGED <<grid_shape, error, workers, export_result,
                   elevation_data, bbox, config, building_data, building_meshes,
                   samples, stats, scene>>
    /\ UNCHANGED <<frontVars, genVars>>

\* number of footprints the extrusion loop has gone through
Processed == Len(samples)

\* the loop body with a failed footprint skipped instead of recorded as None
ExtrudeNextDropFailed ==
    /\ pc = "extruding"
    /\ Processed < Len(building_data)
    /\ LET idx == Processed + 1
           r   == Extrude(building_data[idx], idx, terrain, config.default_height)
       IN  /\ building_meshes' = IF r.mesh = NoneMesh THEN building_meshes
                                 ELSE Append(building_meshes, r.mesh)
           /\ samples' = Append(samples, r.sample)
           /\ stats' = IF r.mesh = NoneMesh
                       THEN Append(stats, [index |-> idx, reason |-> r.reason])
                       ELSE stats
    /\ pc' = "extruding"
    /\ UNCHANGED <<grid_shape, error, workers, export_result,
                   elevation_data, bbox, config, building_data, terrain, scene>>
    /\ UNCHANGED <<frontVars, genVars>>

\* the loop body with a failed footprint aborting the batch
ExtrudeNextAbort ==
    /\ pc = "extruding"
    /\ Processed < Len(building_data)
    /\ LET idx == Processed + 1
           r   == Extrude(building_data[idx], idx, terrain, config.default_height)
       IN  /\ building_meshes' = Append(building_meshes, r.mesh)
           /\ samples' = Append(samples, r.sample)
           /\ stats' = IF r.mesh = NoneMesh
                       THEN Append(stats, [index |-> idx, reason |-> r.reason])
                       ELSE stats
           /\ pc' = IF r.mesh = NoneMesh THEN "failed" ELSE "extruding"
    /\ UNCHANGED <<grid_shape, error, workers, export_result,
                   elevation_data, bbox, config, building_data, terrain, scene>>
    /\ UNCHANGED <<frontVars, genVars>>

\* the loop body with only geometry failures counted: a footprint dropped for
\* its elevation sample leaves a None but no statistics entry
ExtrudeNextGeometryCountedOnly ==
    /\ pc = "extruding"
    /\ Processed < Len(building_data)
    /\ LET idx == Processed + 1
           r   == Extrude(building_data[idx], idx, terrain, config.default_height)
       IN  /\ building_meshes' = Append(building_meshes, r.mesh)
           /\ samples' = Append(samples, r.sample)
           /\ stats' = IF r.mesh = NoneMesh /\ r.reason = "InvalidGeometry"
                       THEN Append(stats, [index |-> idx, reason |-> r.reason])
                       ELSE stats
    /\ pc' = "extruding"
    /\ UNCHANGED <<grid_shape, error, workers, export_result,
                   elevation_data, bbox, config, building_data, terrain, scene>>
    /\ UNCHANGED <<frontVars, genVars>>

\* one iteration of extrude_buildings(): the next footprint is extruded and its
\* result, or None, is appended at its own index; the failure reason is recorded
ExtrudeNext ==
    /\ pc = "extruding"
    /\ Processed < Len(building_data)
    /\ LET idx == Processed + 1
           r   == Extrude(building_data[idx], idx, terrain, config.default_height)
       IN  /\ building_meshes' = Append(building_meshes, r.mesh)
           /\ samples' = Append(samples, r.sample)
           /\ stats' = IF r.mesh = NoneMesh
                       THEN Append(stats, [index |-> idx, reason |-> r.reason])
                       ELSE stats
    /\ pc' = "extruding"
    /\ UNCHANGED <<grid_shape, error, workers, export_result,
                   elevation_data, bbox, config, building_data, terrain, scene>>
    /\ UNCHANGED <<frontVars, genVars>>

\* all footprints processed: terrain and buildings are merged into the scene
MergeScene ==
    /\ pc = "extruding"
    /\ Processed = Len(building_data)
    /\ scene' = Merge(terrain, building_meshes)
    /\ pc' = "done"
    /\ UNCHANGED <<grid_shape, error, workers, export_result,
                   elevation_data, bbox, config, building_data, terrain,
                   building_meshes, samples, stats>>
    /\ UNCHANGED <<frontVars, genVars>>

Next == BuildTerrain \/ ExtrudeNext \/ MergeScene

Spec == Init /\ [][Next]_vars

-----------------------------------------------------------------------------
(* Properties of the generation job *)

\* what extrude() yields for input footprint i on the built terrain
ResultFor(i) == Extrude(building_data[i], i, terrain, config.default_height)

\* C1: the building result sequence is index-aligned with the input footprint
\* list: one entry per processed footprint, entry i is the result of footprint
\* i (a mesh tagged with i, or None exactly when footprint i fails), and once
\* the job is done the sequence is exactly as long as the input list.
C1_IndexAlignment ==
    /\ Len(building_meshes) = Processed
    /\ Len(building_meshes) <= Len(building_data)
    /\ pc = "done" => Len(building_meshes) = Len(building_data)
    /\ \A i \in 1..Len(building_meshes) :
          LET r == ResultFor(i)
          IN  /\ building_meshes[i] = r.mesh
              /\ building_meshes[i] # NoneMesh => building_meshes[i].source = i
              /\ building_meshes[i] = NoneMesh <=> r.reason # ""

\* a finished job whose first footprint failed and whose second one succeeded
C1_Witness ==
    /\ pc = "done"
    /\ Len(building_data) >= 2
    /\ building_meshes[1] = NoneMesh
    /\ building_meshes[2] # NoneMesh

\* C2: a failed footprint never stops the job: whatever failures have been
\* recorded, the job is in no phase other than start / extruding / done, every
\* footprint after a failed one is still processed, every footprint that does
\* not fail has its mesh, and the finished job has a merged scene.
C2_FailureConfined ==
    /\ pc \in {"start", "extruding", "done"}
    /\ \A k \in 1..Len(stats) : stats[k].index <= Processed
    /\ pc = "done" =>
          /\ Processed = Len(building_data)
          /\ scene.tag = "scene"
          /\ \A i \in 1..Len(building_data) :
                ResultFor(i).reason = "" => building_meshes[i].tag = "mesh"

\* a finished job with a merged scene in which both kinds of failure occurred
\* and a footprint whose polygon extrusion failed was still processed
C2_Witness ==
    /\ pc = "done"
    /\ scene.tag = "scene"
    /\ \E i \in 1..Len(stats) : stats[i].reason = "InvalidGeometry"
    /\ \E i \in 1..Len(stats) : stats[i].reason = "OutOfBounds"

\* a finished job in which a footprint whose polygon extrusion failed follows
\* a failed footprint and still has a mesh
C2_WitnessExtrusionError ==
    /\ pc = "done"
    /\ Len(building_data) >= 2
    /\ building_meshes[1] = NoneMesh
    /\ ~building_data[2].extrude_ok
    /\ building_meshes[2].tag = "mesh"

-----------------------------------------------------------------------------
(* The bounding-box validation of the frontend (lib/api.ts).  Angles are
   integers in millionths of a degree, lengths in metres. *)

MetersPerDegree == 111000

MinSide == 1000

MaxSide == 5000

\* Math.cos(centerLat * (Math.PI / 180)) in millionths, for the centre
\* latitudes the selections below use
Cos(centerLat) ==
    CASE centerLat = 0 -> 1000000
      [] centerLat = 45000000 -> 707107
      [] centerLat = 60000000 -> 500000
      [] centerLat = -60000000 -> 500000

\* Math.round of a length given in millimetres: floor(x + 0.5), in metres
MathRound(mm) == (mm + 500) \div 1000

\* mm * c / 1000000 in millimetres, the product formed in parts of three
\* digits so that no intermediate leaves the 32-bit range
ScaleMillionths(mm, c) ==
    LET ah == mm \div 1000
        al == mm % 1000
        ch == c \div 1000
        cl == c % 1000
        q  == ah * cl + al * ch
        l  == (q % 1000) * 1000 + al * cl
    IN  ah * ch + q \div 1000 + l \div 1000000

\* calculateAreaSize(bbox): width and height in metres
calculateAreaSize(b) ==
    LET centerLat == (b.north + b.south) \div 2
        latMeters == (b.north - b.south) * (MetersPerDegree \div 1000)
        lngMeters == ScaleMillionths((b.east - b.west) * (MetersPerDegree \div 1000),
                                     Abs(Cos(centerLat)))
    IN  [width |-> MathRound(lngMeters), height |-> MathRound(latMeters)]

\* validateBboxSize with the minimum compared by <=
validateBboxSizeExclusiveMin(b) ==
    LET size == calculateAreaSize(b)
    IN  IF size.width <= MinSide \/ size.height <= MinSide
        THEN [tag |-> "result", valid |-> FALSE, error |-> "Area too small"]
        ELSE IF size.width > MaxSide \/ size.height > MaxSide
        THEN [tag |-> "result", valid |-> FALSE, error |-> "Area too large"]
        ELSE [tag |-> "result", valid |-> TRUE, error |-> ""]

\* validateBboxSize(bbox): too small is tested first, then too large
validateBboxSize(b) ==
    LET size == calculateAreaSize(b)
    IN  IF size.width < MinSide \/ size.height < MinSide
        THEN [tag |-> "result", valid |-> FALSE, error |-> "Area too small"]
        ELSE IF size.width > MaxSide \/ size.height > MaxSide
        THEN [tag |-> "result", valid |-> FALSE, error |-> "Area too large"]
        ELSE [tag |-> "result", valid |-> TRUE, error |-> ""]

\* centre latitudes, and half extents in latitude and longitude, of the
\* selections: sides just below, at and just above 1000 m and 5000 m
CenterLats == {0, 45000000, 60000000, -60000000}

HalfLats == {4502, 4503, 4505, 13500, 22522, 22523, 22525}

HalfLons == {4502, 4503, 6369, 6370, 9004, 9005, 13500, 22522, 22525, 27000,
             31853, 31856, 45045, 45050}

\* a selection of the map: a bounding box around (centre latitude, 0)
InitValidate ==
    /\ pc = "selected"
    /\ \E c \in CenterLats, h \in HalfLats, w \in HalfLons :
          bounds = [tag |-> "bbox", north |-> c + h, south |-> c - h,
                    east |-> w, west |-> -w]
    /\ validation = NotValidated
    /\ UiIdle
    /\ elevation_data = << >>
    /\ grid_shape = [rows |-> 0, cols |-> 0]
    /\ JobExtrasIdle
    /\ bbox = NoBounds
    /\ config = [sigma |-> 0, default_height |-> 100]
    /\ building_data = << >>
    /\ terrain = NoTerrain
    /\ building_meshes = << >>
    /\ samples = << >>
    /\ stats = << >>
    /\ scene = NoScene
    /\ GenerateIdle

\* the selection is validated before a job may be requested
ValidateBbox ==
    /\ pc = "selected"
    /\ validation' = validateBboxSize(bounds)
    /\ pc' = "validated"
    /\ UNCHANGED <<bounds, grid_shape, error, workers, export_result,
                   elevation_data, bbox, config, building_data, terrain,
                   building_meshes, samples, stats, scene>>
    /\ UNCHANGED <<genVars, buttonVars, selectorVars>>

NextValidate == ValidateBbox

SpecValidate == InitValidate /\ [][NextValidate]_vars

\* C10: validateBboxSize reports a bounding box valid exactly when both its
\* width and its height in metres, as calculateAreaSize computes them, lie in
\* [1000, 5000]; a side below 1000 m or above 5000 m makes it invalid with an
\* error message, and a valid box carries none.
C10_ValidIffInRange ==
    pc = "validated" =>
        LET size == calculateAreaSize(bounds)
            inRange == /\ 1000 <= size.width /\ size.width <= 5000
                       /\ 1000 <= size.height /\ size.height <= 5000
        IN  /\ validation.tag = "result"
            /\ validation.valid <=> inRange
            /\ ~inRange => (~validation.valid /\ validation.error # "")
            /\ validation.valid => validation.error = ""

\* a box of exactly 1000 m by 5000 m was validated and accepted
C10_Witness ==
    /\ pc = "validated"
    /\ calculateAreaSize(bounds).width = 1000
    /\ calculateAreaSize(bounds).height = 5000
    /\ validation.valid

-----------------------------------------------------------------------------
(* Properties of the generation job *)

\* squared distance from p to the nearest terrain vertex
MinDist2(t, p) ==
    LET d2 == Dist2(t, p) IN d2[NearestVertex(d2)]

\* p is farther than 50 m from every terrain vertex
FarFromTerrain(t, p) == MinDist2(t, p) > MaxDistance * MaxDistance

\* the failure reason recorded for footprint i, "" if none
ReasonAt(i) ==
    IF \E k \in 1..Len(stats) : stats[k].index = i
    THEN stats[CHOOSE k \in 1..Len(stats) : stats[k].index = i].reason
    ELSE ""

\* no mesh stands on a defaulted elevation: a mesh exists only for a successful
\* sample, and its base and its bottom vertices are at the sampled value
NoDefaultedBase ==
    \A i \in 1..Len(building_meshes) :
        building_meshes[i] # NoneMesh =>
            /\ samples[i].sampled /\ samples[i].result.ok
            /\ building_meshes[i].base_elevation = samples[i].result.value
            /\ \A v \in 1..Len(building_meshes[i].vertices) :
                  building_meshes[i].vertices[v].y \in
                      { samples[i].result.value,
                        samples[i].result.value + building_meshes[i].height }

\* C3: every footprint whose centroid is farther than 50 m from every terrain
\* vertex yields None tagged OutOfBounds at its index, and no building mesh is
\* placed at an elevation defaulted because sampling failed.
C3_Original ==
    /\ \A i \in 1..Len(building_meshes) :
          (samples[i].sampled /\ FarFromTerrain(terrain, samples[i].centroid)) =>
              (building_meshes[i] = NoneMesh /\ ReasonAt(i) = "OutOfBounds")
    /\ NoDefaultedBase

\* the 0-based terrain vertices that sit exactly at point p
VerticesAt(t, p) ==
    {v \in VertexIds(t) : VertexPosOf(t, v).x = p.x /\ VertexPosOf(t, v).z = p.z}

\* C4: a building centroid placed exactly on a terrain grid vertex samples that
\* vertex's elevation, the point handed to the sampler being the transformed
\* centroid itself with no extra sign flip of z (or x).
C4_Original ==
    \A i \in 1..Processed :
        samples[i].sampled =>
            \A v \in VerticesAt(terrain, samples[i].centroid) :
                /\ samples[i].query = samples[i].centroid
                /\ samples[i].result.ok
                /\ samples[i].result.value = terrain.vertices[v + 1].y

\* C5: the height of every extruded building follows the priority: the
\* explicit height when present (whatever the levels and type), else levels
\* times 3.5 m, else the type default (residential 8 m, house 6 m, office 25 m);
\* the prism's top is that height above its base.
C5_HeightPriority ==
    \A i \in 1..Len(building_meshes) :
        building_meshes[i] # NoneMesh =>
            LET fp == building_data[i]
                m  == building_meshes[i]
            IN  /\ fp.height # Absent => m.height = fp.height[1]
                /\ (fp.height = Absent /\ fp.levels # Absent) => m.height = 35 * fp.levels[1]
                /\ (fp.height = Absent /\ fp.levels = Absent) =>
                      /\ fp.building_type = "residential" => m.height = 80
                      /\ fp.building_type = "house" => m.height = 60
                      /\ fp.building_type = "office" => m.height = 250
                /\ \E v \in 1..Len(m.vertices) : m.vertices[v].y = m.base_elevation + m.height
                /\ \A v \in 1..Len(m.vertices) : m.vertices[v].y <= m.base_elevation + m.height

\* a building with height = 12 m and levels = 40 was extruded to 12 m
C5_Witness ==
    \E i \in 1..Len(building_meshes) :
        /\ building_meshes[i] # NoneMesh
        /\ building_data[i].height = Some(120)
        /\ building_data[i].levels = Some(40)
        /\ building_meshes[i].height = 120

\* C6: the terrain built from an R x C grid has exactly R*C vertices and
\* exactly 2*(R-1)*(C-1) faces.
C6_TerrainCounts ==
    terrain # NoTerrain =>
        /\ Len(terrain.vertices) = NumRows(elevation_data) * NumCols(elevation_data)
        /\ Len(terrain.faces) =
              2 * (NumRows(elevation_data) - 1) * (NumCols(elevation_data) - 1)

\* a terrain was built from a non-square grid
C6_Witness ==
    /\ terrain # NoTerrain
    /\ NumRows(elevation_data) # NumCols(elevation_data)
    /\ Len(terrain.vertices) = NumRows(elevation_data) * NumCols(elevation_data)

RECURSIVE VertexOffsetOf(_)
\* vertices that precede building i in a scene: the terrain's and those of the
\* non-null buildings before it
VertexOffsetOf(i) ==
    IF i = 1 THEN Len(terrain.vertices)
    ELSE VertexOffsetOf(i - 1) +
         (IF building_meshes[i - 1] = NoneMesh THEN 0
          ELSE Len(building_meshes[i - 1].vertices))

RECURSIVE FaceOffsetOf(_)
\* faces that precede building i in a scene
FaceOffsetOf(i) ==
    IF i = 1 THEN Len(terrain.faces)
    ELSE FaceOffsetOf(i - 1) +
         (IF building_meshes[i - 1] = NoneMesh THEN 0
          ELSE Len(building_meshes[i - 1].faces))

\* C7: the merged scene is the concatenation of the terrain and the non-null
\* building meshes in input order: vertex and face counts are the sums of the
\* parts, every part's vertices are copied unchanged, every part's faces are
\* shifted by the number of vertices before it and so name the same vertices as
\* in the part, every index is valid, and a None entry contributes nothing.
C7_MergeConcatenation ==
    pc = "done" =>
        LET n == Len(building_meshes)
        IN  /\ Len(scene.vertices) = VertexOffsetOf(n + 1)
            /\ Len(scene.faces) = FaceOffsetOf(n + 1)
            /\ \A v \in 1..Len(terrain.vertices) : scene.vertices[v] = terrain.vertices[v]
            /\ \A f \in 1..Len(terrain.faces) : scene.faces[f] = terrain.faces[f]
            /\ \A i \in 1..n :
                  building_meshes[i] # NoneMesh =>
                      /\ \A v \in 1..Len(building_meshes[i].vertices) :
                            scene.vertices[VertexOffsetOf(i) + v] = building_meshes[i].vertices[v]
                      /\ \A f \in 1..Len(building_meshes[i].faces) : \A k \in 1..3 :
                            /\ scene.faces[FaceOffsetOf(i) + f][k]
                                  = building_meshes[i].faces[f][k] + VertexOffsetOf(i)
                            /\ scene.vertices[scene.faces[FaceOffsetOf(i) + f][k] + 1]
                                  = building_meshes[i].vertices[building_meshes[i].faces[f][k] + 1]
            /\ \A f \in 1..Len(scene.faces) : \A k \in 1..3 :
                  0 <= scene.faces[f][k] /\ scene.faces[f][k] < Len(scene.vertices)

\* a scene merged from a None entry followed by a building, and one merged from
\* two buildings, are both reachable; this is the former
C7_Witness ==
    /\ pc = "done"
    /\ Len(building_meshes) = 2
    /\ building_meshes[1] # NoneMesh
    /\ building_meshes[2] # NoneMesh
    /\ Len(scene.vertices) > Len(terrain.vertices) + Len(building_meshes[1].vertices)

\* position of the 0-based scene/terrain vertex id in the terrain
PosOfId(id) == [x |-> terrain.vertices[id + 1].x, z |-> terrain.vertices[id + 1].z]

\* the terrain face f contains p, edges included (same-side test)
FaceContains(f, p) ==
    LET a == PosOfId(terrain.faces[f][1])
        b == PosOfId(terrain.faces[f][2])
        c == PosOfId(terrain.faces[f][3])
    IN  \/ (Cross(a, b, p) >= 0 /\ Cross(b, c, p) >= 0 /\ Cross(c, a, p) >= 0)
        \/ (Cross(a, b, p) <= 0 /\ Cross(b, c, p) <= 0 /\ Cross(c, a, p) <= 0)

\* value is the elevation interpolated at p from the three vertices of face f,
\* rounded down to the unit of length
InterpolatesFace(f, p, value) ==
    LET ia == terrain.faces[f][1]
        ib == terrain.faces[f][2]
        ic == terrain.faces[f][3]
        d  == Abs(Cross(PosOfId(ia), PosOfId(ib), PosOfId(ic)))
        n  == Abs(Cross(PosOfId(ib), PosOfId(ic), p)) * terrain.vertices[ia + 1].y
              + Abs(Cross(PosOfId(ic), PosOfId(ia), p)) * terrain.vertices[ib + 1].y
              + Abs(Cross(PosOfId(ia), PosOfId(ib), p)) * terrain.vertices[ic + 1].y
    IN  d * value <= n /\ n < d * (value + 1)

\* C8: whenever the query point lies inside a triangle of the terrain grid the
\* sampler answers with the barycentric interpolation of that triangle's three
\* vertex elevations; the inverse-distance and nearest-vertex fallbacks (and
\* OutOfBounds) occur only when no triangle contains the point.
C8_StrategyOrder ==
    \A i \in 1..Processed :
        samples[i].sampled =>
            LET q == samples[i].query
                r == samples[i].result
                inside == {f \in 1..Len(terrain.faces) : FaceContains(f, q)}
            IN  /\ inside # {} =>
                      /\ r.ok /\ r.method = "barycentric"
                      /\ \E f \in inside : InterpolatesFace(f, q, r.value)
                /\ r.method \in {"idw", "nearest", "out_of_bounds"} => inside = {}

\* a point strictly inside a triangle was sampled by interpolation, next to a
\* point outside the grid answered by a fallback
C8_Witness ==
    /\ \E i \in 1..Processed :
          /\ samples[i].sampled
          /\ samples[i].result.method = "barycentric"
          /\ \E f \in 1..Len(terrain.faces) :
                LET a == PosOfId(terrain.faces[f][1])
                    b == PosOfId(terrain.faces[f][2])
                    c == PosOfId(terrain.faces[f][3])
                    q == samples[i].query
                IN  /\ FaceContains(f, q)
                    /\ Cross(a, b, q) # 0 /\ Cross(b, c, q) # 0 /\ Cross(c, a, q) # 0
    /\ \E i \in 1..Processed :
          samples[i].sampled /\ samples[i].result.method \in {"idw", "nearest"}

\* C9: sampleElevation returns OutOfBounds whenever the nearest grid vertex is
\* farther than 50 m from the query point, and never an elevation value.
C9_Original ==
    \A i \in 1..Processed :
        (samples[i].sampled /\ FarFromTerrain(terrain, samples[i].query)) =>
            (~samples[i].result.ok /\ samples[i].result.method = "out_of_bounds")

-----------------------------------------------------------------------------
(* generateMesh of the frontend (lib/api.ts): start the job, poll its
   progress once a second, download the file when the job is complete.  The
   backend is the environment: every reply is chosen freely. *)

\* largest number of logged progress polls whose answer keeps the loop going
MaxPolls == 3

\* job ids the client or the backend may come up with
JobIds == {"j1", "j2"}

\* statuses a progress reply may carry
Statuses == {"processing", "queued", "unknown", "complete", "error"}

\* the progress requests sent so far
PollCount == Cardinality({k \in 1..Len(requests) : requests[k].op = "progress"})

\* a call of generateMesh begins; the client picks its job id
InitGenerate ==
    /\ gm_pc = "start"
    /\ client_job_id \in JobIds
    /\ job_id = ""
    /\ progress = NoProgress
    /\ requests = << >>
    /\ on_progress \in BOOLEAN
    /\ link_clicked = FALSE
    /\ bounds = NoBounds
    /\ validation = NotValidated
    /\ UiIdle
    /\ pc = "start"
    /\ elevation_data = << >>
    /\ grid_shape = [rows |-> 0, cols |-> 0]
    /\ JobExtrasIdle
    /\ bbox = NoBounds
    /\ config = [sigma |-> 0, default_height |-> 100]
    /\ building_data = << >>
    /\ terrain = NoTerrain
    /\ building_meshes = << >>
    /\ samples = << >>
    /\ stats = << >>
    /\ scene = NoScene

\* the catch block with the onProgress call left out: the error is only rethrown
RejectedSilently ==
    /\ progress' = progress
    /\ gm_pc' = "rejected"

\* the catch block: onProgress, if given, is told of the error and the error
\* is rethrown
Rejected ==
    /\ progress' = IF on_progress
                   THEN [percent |-> 0, message |-> "Error occurred", status |-> "error"]
                   ELSE progress
    /\ gm_pc' = "rejected"

\* 1. POST /generate; not ok throws, else the job id of the response is kept
StartJob ==
    /\ gm_pc = "start"
    /\ \E ok \in BOOLEAN, id \in JobIds :
          /\ requests' = Append(requests, [op |-> "generate", job |-> client_job_id,
                                           reply |-> IF ok THEN id ELSE "not ok"])
          /\ IF ok
             THEN /\ job_id' = id
                  /\ gm_pc' = "polling"
                  /\ UNCHANGED progress
             ELSE /\ Rejected
                  /\ UNCHANGED job_id
    /\ UNCHANGED <<client_job_id, on_progress, link_clicked, frontVars, coreVars>>

\* percentages a progress reply may carry
Percents == {0, 50}

\* the log of requests after a progress request: once MaxPolls progress
\* requests are logged, further ones answered with a status that keeps the loop
\* going are no longer added
LogPoll(reply) ==
    IF reply \in {"processing", "queued", "unknown"} /\ PollCount >= MaxPolls
    THEN requests
    ELSE Append(requests, [op |-> "progress", job |-> job_id, reply |-> reply])

\* the poll loop with a status "error" ending the loop like "complete"
PollErrorEndsLoop ==
    /\ gm_pc = "polling"
    /\ \E ok \in BOOLEAN, st \in Statuses, pct \in Percents :
          /\ requests' = LogPoll(IF ok THEN st ELSE "not ok")
          /\ IF ~ok
             THEN Rejected
             ELSE /\ progress' = IF on_progress
                                 THEN [percent |-> pct, message |-> "", status |-> st]
                                 ELSE progress
                  /\ gm_pc' = IF st \in {"complete", "error"} THEN "download" ELSE "polling"
    /\ UNCHANGED <<client_job_id, job_id, on_progress, link_clicked, frontVars, coreVars>>

\* the poll loop with a status "queued" taken for a failure
PollQueuedThrows ==
    /\ gm_pc = "polling"
    /\ \E ok \in BOOLEAN, st \in Statuses, pct \in Percents :
          /\ requests' = LogPoll(IF ok THEN st ELSE "not ok")
          /\ IF ~ok \/ st \in {"error", "queued"}
             THEN Rejected
             ELSE /\ progress' = IF on_progress
                                 THEN [percent |-> pct, message |-> "", status |-> st]
                                 ELSE progress
                  /\ gm_pc' = IF st = "complete" THEN "download" ELSE "polling"
    /\ UNCHANGED <<client_job_id, job_id, on_progress, link_clicked, frontVars, coreVars>>

\* 2. one turn of the poll loop: getProgress(job_id) after the wait; a failed
\* fetch throws, the reply is handed to onProgress, "complete" leaves the loop,
\* "error" throws (the catch block's onProgress call follows the reply's),
\* anything else polls again
Poll ==
    /\ gm_pc = "polling"
    /\ \E ok \in BOOLEAN, st \in Statuses, pct \in Percents :
          /\ requests' = LogPoll(IF ok THEN st ELSE "not ok")
          /\ IF ~ok \/ st = "error"
             THEN Rejected
             ELSE /\ progress' = IF on_progress
                                 THEN [percent |-> pct, message |-> "", status |-> st]
                                 ELSE progress
                  /\ gm_pc' = IF st = "complete" THEN "download" ELSE "polling"
    /\ UNCHANGED <<client_job_id, job_id, on_progress, link_clicked, frontVars, coreVars>>

\* what a download request may end in: the file, a response that is not ok,
\* or a response whose body cannot be read
DownloadOutcomes == {"ok", "not ok", "body lost"}

\* 3. GET /download/{job_id}; not ok throws, a failed blob() throws, else the
\* blob is saved through a click on a temporary link
Download ==
    /\ gm_pc = "download"
    /\ \E out \in DownloadOutcomes :
          /\ requests' = Append(requests, [op |-> "download", job |-> job_id,
                                           reply |-> out])
          /\ IF out = "ok"
             THEN /\ gm_pc' = "resolved"
                  /\ link_clicked' = TRUE
                  /\ UNCHANGED progress
             ELSE /\ Rejected
                  /\ UNCHANGED link_clicked
    /\ UNCHANGED <<client_job_id, job_id, on_progress, frontVars, coreVars>>

NextGenerate == StartJob \/ Poll \/ Download

SpecGenerate == InitGenerate /\ [][NextGenerate]_vars

\* C11: the download is requested only right after a progress poll of the job
\* id returned by /generate was answered "complete": never while the last
\* status is processing or queued, never after a status "error" or a failed
\* request, and at most once per call.
C11_DownloadAfterComplete ==
    \A k \in 1..Len(requests) :
          requests[k].op = "download" =>
              /\ k >= 3
              /\ requests[1].op = "generate"
              /\ requests[k].job = requests[1].reply
              /\ requests[k - 1].op = "progress"
              /\ requests[k - 1].job = requests[1].reply
              /\ requests[k - 1].reply = "complete"
              /\ \A j \in 1..(k - 1) : requests[j].reply \notin {"error", "not ok"}
              /\ \A j \in 1..(k - 1) : requests[j].op # "download"

\* a call that polled twice without completion, then saw "complete", and
\* downloaded under the backend's job id, which differs from the client's
C11_Witness ==
    /\ gm_pc = "resolved"
    /\ Len(requests) = 5
    /\ requests[5].op = "download"
    /\ requests[2].reply = "processing"
    /\ requests[3].reply = "queued"
    /\ job_id # client_job_id

-----------------------------------------------------------------------------
(* A job from its submission: the inputs are checked before the terrain is
   built; a bad bounding box or a grid of the wrong shape is fatal. *)

\* the bounding box checks and the grid shape check without the latter
InputErrorOfIgnoreShape(grid, shape, b) ==
    IF b.north - b.south = 0 \/ b.east - b.west = 0
    THEN [tag |-> "error", kind |-> "InputError", reason |-> "degenerate bbox"]
    ELSE IF \/ b.north - b.south < MinSide \/ b.north - b.south > MaxSide
            \/ b.east - b.west < MinSide \/ b.east - b.west > MaxSide
    THEN [tag |-> "error", kind |-> "InputError", reason |-> "bbox side out of range"]
    ELSE NoError

\* the fatal error of the inputs, or NoError: a degenerate bbox and a side
\* outside [1000 m, 5000 m] are InputErrors, a grid whose shape is not the
\* declared (rows, cols) is a DataError
InputErrorOf(grid, shape, b) ==
    IF b.north - b.south = 0 \/ b.east - b.west = 0
    THEN [tag |-> "error", kind |-> "InputError", reason |-> "degenerate bbox"]
    ELSE IF \/ b.north - b.south < MinSide \/ b.north - b.south > MaxSide
            \/ b.east - b.west < MinSide \/ b.east - b.west > MaxSide
    THEN [tag |-> "error", kind |-> "InputError", reason |-> "bbox side out of range"]
    ELSE IF \/ Len(grid) # shape.rows
            \/ \E r \in 1..Len(grid) : Len(grid[r]) # shape.cols
    THEN [tag |-> "error", kind |-> "DataError", reason |-> "grid shape mismatch"]
    ELSE NoError

\* side lengths of the submitted bounding boxes, in metres
JobSides == {0, 999, 1000, 3000, 5000, 5001}

\* the shapes a 2 x 2 grid may be declared to have
JobShapes == {[rows |-> 2, cols |-> 2], [rows |-> 2, cols |-> 3], [rows |-> 3, cols |-> 2]}

\* the footprints of the submitted jobs
JobFootprints ==
    { Footprint(<<Tri(100, 70)>>, Absent, Some(2), "house", TRUE),
      Footprint(<<Flat(-3000, -3000)>>, Some(90), Absent, "residential", TRUE) }

\* a job is submitted with inputs that may be bad
InitJob ==
    /\ pc = "submitted"
    /\ elevation_data = ProviderGrid("gentle", 2, 2)
    /\ grid_shape \in JobShapes
    /\ \E h \in JobSides, w \in JobSides :
          bbox = [south |-> 0, north |-> h, west |-> 0, east |-> w]
    /\ config = [sigma |-> 0, default_height |-> 100]
    /\ building_data \in SeqsUpTo(JobFootprints, 1)
    /\ terrain = NoTerrain
    /\ building_meshes = << >>
    /\ samples = << >>
    /\ stats = << >>
    /\ scene = NoScene
    /\ JobExtrasIdle
    /\ bounds = NoBounds
    /\ validation = NotValidated
    /\ UiIdle
    /\ GenerateIdle

\* the input checks: a fatal error ends the job, else the pipeline starts
CheckInputs ==
    /\ pc = "submitted"
    /\ error' = InputErrorOf(elevation_data, grid_shape, bbox)
    /\ pc' = IF error' = NoError THEN "start" ELSE "failed"
    /\ UNCHANGED <<elevation_data, bbox, config, building_data, terrain,
                   building_meshes, samples, stats, scene, grid_shape, workers,
                   export_result>>
    /\ UNCHANGED <<frontVars, genVars>>

NextJob == CheckInputs \/ BuildTerrain \/ ExtrudeNext \/ MergeScene

SpecJob == InitJob /\ [][NextJob]_vars

\* a side of the bounding box is zero or outside [1000 m, 5000 m]
BadBox ==
    \/ bbox.north - bbox.south < 1000 \/ bbox.north - bbox.south > 5000
    \/ bbox.east - bbox.west < 1000 \/ bbox.east - bbox.west > 5000

\* the grid does not have the declared number of rows and columns
BadGrid ==
    \/ Len(elevation_data) # grid_shape.rows
    \/ \E r \in 1..Len(elevation_data) : Len(elevation_data[r]) # grid_shape.cols

\* C12: a bounding box with a side outside [1000 m, 5000 m] (zero included) or
\* a grid that does not have the declared shape aborts the whole job: nothing
\* is built, the job ends with one top-level error, an InputError for the box
\* and a DataError for the grid, and no scene; a job never has both an error
\* and a scene, and it fails for no other reason.
C12_FatalErrorsAbort ==
    /\ ~(error # NoError /\ scene # NoScene)
    /\ (BadBox \/ BadGrid) =>
          /\ pc \in {"submitted", "failed"}
          /\ scene = NoScene /\ terrain = NoTerrain /\ building_meshes = << >>
    /\ pc = "failed" <=> error # NoError
    /\ pc = "failed" =>
          /\ BadBox \/ BadGrid
          /\ error.kind \in {"InputError", "DataError"}
          /\ error.kind = "InputError" => BadBox
          /\ error.kind = "DataError" => BadGrid

\* a job with a good bounding box failed on the shape of its grid
C12_Witness ==
    /\ pc = "failed"
    /\ error # NoError
    /\ error.kind = "DataError"
    /\ ~BadBox
    /\ scene = NoScene

\* a job with a degenerate bounding box failed with an InputError
C12_WitnessDegenerate ==
    /\ pc = "failed"
    /\ error # NoError
    /\ error.kind = "InputError"
    /\ bbox.east = bbox.west

-----------------------------------------------------------------------------
(* Building extrusion by parallel workers: each worker takes a footprint not
   yet taken, extrudes it against the shared read-only terrain, and stores
   the result in the slot of the footprint's index. *)

\* number of extrusion workers
NumWorkers == 2

Workers == 1..NumWorkers

\* a result slot not yet written
Pending == [tag |-> "Pending"]

IdleWorker == [state |-> "idle", idx |-> 0, result |-> NoneMesh, sample |-> NoSample,
               reason |-> ""]

\* the inputs of the jobs run by workers
WorkerTerrainCases ==
    { [kind |-> "gentle", spacing |-> 1000, sigma |-> 0],
      [kind |-> "gentle", spacing |-> 1001, sigma |-> 1],
      [kind |-> "cliff",  spacing |-> 1250, sigma |-> 1] }

WorkerFootprints ==
    { Footprint(<<Tri(0, 0)>>, Some(120), Some(40), "office", TRUE),
      Footprint(<<Rect(600, 600)>>, Absent, Absent, "house", TRUE),
      Footprint(<<Tri(-3000, -3000)>>, Absent, Absent, "office", TRUE) }

InitWorkers ==
    /\ pc = "start"
    /\ \E tc \in WorkerTerrainCases :
          /\ elevation_data = ProviderGrid(tc.kind, 2, 2)
          /\ grid_shape = [rows |-> 2, cols |-> 2]
          /\ bbox = BboxOf(2, 2, tc.spacing)
          /\ config = [sigma |-> tc.sigma, default_height |-> 100]
    /\ building_data \in SeqsUpTo(WorkerFootprints, MaxFootprints)
    /\ terrain = NoTerrain
    /\ building_meshes = << >>
    /\ samples = << >>
    /\ stats = << >>
    /\ scene = NoScene
    /\ JobExtrasIdle
    /\ bounds = NoBounds
    /\ validation = NotValidated
    /\ UiIdle
    /\ GenerateIdle

\* the grid of vertices, faces and grid metadata before the mesh is centred
UncentredTerrain(grid, b, sigma) ==
    LET elev == FlipUd(Smooth(grid, sigma))
    IN  [tag       |-> "grid",
         vertices  |-> GridVertices(b, elev),
         faces     |-> Triangulate(NumRows(grid), NumCols(grid)),
         grid_dims |-> [rows |-> NumRows(grid), cols |-> NumCols(grid)],
         bounds    |-> b,
         elevation |-> elev,
         offset    |-> [x |-> 0, z |-> 0]]

\* terrain generation, first part: vertices, faces and grid metadata
BuildGrid ==
    /\ pc = "start"
    /\ terrain' = UncentredTerrain(elevation_data, bbox, config.sigma)
    /\ pc' = "centering"
    /\ UNCHANGED <<elevation_data, bbox, config, building_data, building_meshes, samples,
                   stats, scene, grid_shape, error, workers, export_result>>
    /\ UNCHANGED <<frontVars, genVars>>

\* terrain generation, last part: the mesh is centred on x and z
CenterTerrain ==
    /\ terrain # NoTerrain
    /\ terrain.tag = "grid"
    /\ LET off == [x |-> MeanOf(terrain.vertices, "x"), z |-> MeanOf(terrain.vertices, "z")]
       IN  terrain' = [terrain EXCEPT !.tag = "terrain",
                                      !.vertices = Recenter(terrain.vertices, off),
                                      !.offset = off]
    /\ pc' = IF pc = "centering" THEN "extruding" ELSE pc
    /\ UNCHANGED <<elevation_data, bbox, config, building_data, building_meshes, samples,
                   stats, scene, grid_shape, error, workers, export_result>>
    /\ UNCHANGED <<frontVars, genVars>>

\* the pool started without waiting for the terrain to be centred
DispatchWhileCentering ==
    /\ pc \in {"centering", "extruding"}
    /\ workers = << >>
    /\ building_meshes' = [i \in 1..Len(building_data) |-> Pending]
    /\ samples' = [i \in 1..Len(building_data) |-> Pending]
    /\ workers' = [pool |-> [w \in Workers |-> IdleWorker], finished |-> << >>]
    /\ pc' = "parallel"
    /\ UNCHANGED <<elevation_data, bbox, config, building_data, terrain, stats, scene,
                   grid_shape, error, export_result>>
    /\ UNCHANGED <<frontVars, genVars>>

\* the result list is allocated, one slot per footprint, and the pool started
Dispatch ==
    /\ pc = "extruding"
    /\ workers = << >>
    /\ building_meshes' = [i \in 1..Len(building_data) |-> Pending]
    /\ samples' = [i \in 1..Len(building_data) |-> Pending]
    /\ workers' = [pool |-> [w \in Workers |-> IdleWorker], finished |-> << >>]
    /\ pc' = "parallel"
    /\ UNCHANGED <<elevation_data, bbox, config, building_data, terrain, stats, scene,
                   grid_shape, error, export_result>>
    /\ UNCHANGED <<frontVars, genVars>>

\* the footprints no worker has taken yet
Untaken ==
    {i \in 1..Len(building_data) :
        /\ building_meshes[i] = Pending
        /\ \A w \in Workers : workers.pool[w].idx # i}

\* an idle worker takes any footprint not yet taken
Take(w) ==
    /\ pc = "parallel"
    /\ workers.pool[w].state = "idle"
    /\ \E i \in Untaken :
          workers' = [workers EXCEPT !.pool[w] = [IdleWorker EXCEPT !.state = "taken",
                                                                    !.idx = i]]
    /\ UNCHANGED <<elevation_data, bbox, config, building_data, terrain, building_meshes,
                   samples, stats, scene, grid_shape, error, export_result, pc>>
    /\ UNCHANGED <<frontVars, genVars>>

\* the worker extrudes its footprint; the result stays with the worker
Compute(w) ==
    /\ pc = "parallel"
    /\ workers.pool[w].state = "taken"
    /\ LET idx == workers.pool[w].idx
           r   == Extrude(building_data[idx], idx, terrain, config.default_height)
       IN  workers' = [workers EXCEPT !.pool[w] = [state |-> "computed", idx |-> idx,
                                                   result |-> r.mesh, sample |-> r.sample,
                                                   reason |-> r.reason]]
    /\ UNCHANGED <<elevation_data, bbox, config, building_data, terrain, building_meshes,
                   samples, stats, scene, grid_shape, error, export_result, pc>>
    /\ UNCHANGED <<frontVars, genVars>>

\* the first slot still pending
FirstPending == CHOOSE i \in 1..Len(building_meshes) :
                    /\ building_meshes[i] = Pending
                    /\ \A j \in 1..(i - 1) : building_meshes[j] # Pending

\* the result stored in the first free slot, in order of completion
StoreInCompletionOrder(w) ==
    /\ pc = "parallel"
    /\ workers.pool[w].state = "computed"
    /\ LET me == workers.pool[w]
       IN  /\ building_meshes' = [building_meshes EXCEPT ![FirstPending] = me.result]
           /\ samples' = [samples EXCEPT ![FirstPending] = me.sample]
           /\ stats' = IF me.result = NoneMesh
                       THEN Append(stats, [index |-> me.idx, reason |-> me.reason])
                       ELSE stats
           /\ workers' = [pool |-> [workers.pool EXCEPT ![w] = IdleWorker],
                          finished |-> Append(workers.finished, me.idx)]
    /\ UNCHANGED <<elevation_data, bbox, config, building_data, terrain, scene,
                   grid_shape, error, export_result, pc>>
    /\ UNCHANGED <<frontVars, genVars>>

\* the worker writes its result back to the slot of the footprint's index
Store(w) ==
    /\ pc = "parallel"
    /\ workers.pool[w].state = "computed"
    /\ LET me == workers.pool[w]
       IN  /\ building_meshes' = [building_meshes EXCEPT ![me.idx] = me.result]
           /\ samples' = [samples EXCEPT ![me.idx] = me.sample]
           /\ stats' = IF me.result = NoneMesh
                       THEN Append(stats, [index |-> me.idx, reason |-> me.reason])
                       ELSE stats
           /\ workers' = [pool |-> [workers.pool EXCEPT ![w] = IdleWorker],
                          finished |-> Append(workers.finished, me.idx)]
    /\ UNCHANGED <<elevation_data, bbox, config, building_data, terrain, scene,
                   grid_shape, error, export_result, pc>>
    /\ UNCHANGED <<frontVars, genVars>>

\* the merge with the buildings taken in the order the workers finished them
MergeParallelAsFinished ==
    /\ pc = "parallel"
    /\ \A i \in 1..Len(building_meshes) : building_meshes[i] # Pending
    /\ scene' = Merge(terrain, [k \in 1..Len(workers.finished) |->
                                   building_meshes[workers.finished[k]]])
    /\ pc' = "done"
    /\ UNCHANGED <<elevation_data, bbox, config, building_data, terrain, building_meshes,
                   samples, stats, grid_shape, error, workers, export_result>>
    /\ UNCHANGED <<frontVars, genVars>>

\* every slot is written: terrain and buildings are merged in index order
MergeParallel ==
    /\ pc = "parallel"
    /\ \A i \in 1..Len(building_meshes) : building_meshes[i] # Pending
    /\ scene' = Merge(terrain, building_meshes)
    /\ pc' = "done"
    /\ UNCHANGED <<elevation_data, bbox, config, building_data, terrain, building_meshes,
                   samples, stats, grid_shape, error, workers, export_result>>
    /\ UNCHANGED <<frontVars, genVars>>

NextWorkers ==
    \/ BuildGrid
    \/ CenterTerrain
    \/ Dispatch
    \/ \E w \in Workers : Take(w)
    \/ \E w \in Workers : Compute(w)
    \/ \E w \in Workers : Store(w)
    \/ MergeParallel

SpecWorkers == InitWorkers /\ [][NextWorkers]_vars


\* what the sequential extruder produces for the same inputs, in index order
SequentialMeshes ==
    LET T == GenerateTerrain(elevation_data, bbox, config.sigma)
    IN  [i \in 1..Len(building_data) |->
            Extrude(building_data[i], i, T, config.default_height).mesh]

SequentialScene ==
    Merge(GenerateTerrain(elevation_data, bbox, config.sigma), SequentialMeshes)

(* C13: the scene is determined by the inputs alone: whatever the order in
   which the workers take, extrude and store the footprints, the finished
   job's vertices, faces and face attribution are those of the sequential
   pipeline run on the same elevation grid, footprints, bbox and
   configuration, so two runs on identical inputs give identical scenes. *)
C13_Deterministic ==
    pc = "done" =>
        /\ scene.vertices = SequentialScene.vertices
        /\ scene.faces = SequentialScene.faces
        /\ scene.terrain_faces = SequentialScene.terrain_faces

\* a job whose two buildings were finished in the reverse of index order
C13_Witness ==
    /\ pc = "done"
    /\ workers # << >>
    /\ workers.finished = <<2, 1>>
    /\ building_meshes[1] # NoneMesh
    /\ building_meshes[2] # NoneMesh
    /\ building_meshes[1] # building_meshes[2]

(* C14: while workers run and after they finish, every written slot i holds
   exactly the sequential extruder's result for footprint i, no two workers
   hold the same footprint, no worker holds a footprint whose slot is already
   written, and once every slot is written the result list equals the list a
   sequential in-order extrusion produces. *)
C14_SlotPerIndex ==
    pc \in {"parallel", "done"} =>
        /\ Len(building_meshes) = Len(building_data)
        /\ \A i \in 1..Len(building_meshes) :
              building_meshes[i] = Pending \/ building_meshes[i] = SequentialMeshes[i]
        /\ \A w \in Workers :
              workers.pool[w].state # "idle" =>
                  /\ workers.pool[w].idx \in 1..Len(building_data)
                  /\ building_meshes[workers.pool[w].idx] = Pending
                  /\ \A v \in Workers \ {w} : workers.pool[v].idx # workers.pool[w].idx
        /\ pc = "done" => building_meshes = SequentialMeshes

\* worker 2 has stored footprint 2 while worker 1 still holds footprint 1
C14_Witness ==
    /\ pc = "parallel"
    /\ Len(building_data) = 2
    /\ building_meshes[1] = Pending
    /\ building_meshes[2] # Pending
    /\ building_meshes[2] # NoneMesh
    /\ workers.pool[1].state = "computed"
    /\ workers.pool[1].idx = 1
    /\ workers.pool[1].result # building_meshes[2]


\* the terrain is fully built: vertices, faces, grid metadata, centred
TerrainComplete == terrain = GenerateTerrain(elevation_data, bbox, config.sigma)

\* some worker has sampled the terrain (held by the worker or already stored)
SampleTaken ==
    /\ workers # << >>
    /\ \/ \E w \in Workers : workers.pool[w].sample.sampled
       \/ \E i \in 1..Len(samples) : samples[i] # Pending /\ samples[i].sampled

(* C15: in every state in which an elevation sample has been taken, the
   terrain is the completely built and centred terrain of the job's inputs:
   no sample precedes the end of terrain construction, and since the inputs
   never change the terrain mesh and its grid metadata are the same in every
   state from the first sample on. *)
C15_BuiltBeforeSampled ==
    SampleTaken => (TerrainComplete /\ pc \in {"parallel", "done"})

\* one worker has stored a sampled result while the other is about to sample,
\* on a terrain whose centring moved the vertices
C15_Witness ==
    /\ pc = "parallel"
    /\ terrain.offset # [x |-> 0, z |-> 0]
    /\ \E i \in 1..Len(samples) : samples[i] # Pending /\ samples[i].sampled
    /\ \E w \in Workers : workers.pool[w].state = "taken"


\* the terrain has been centred
Centred == terrain # NoTerrain /\ terrain.tag = "terrain"

\* sum of the x (axis = "x") or z values of the terrain's vertices
AxisSum(axis) ==
    SumTo([i \in 1..Len(terrain.vertices) |->
              IF axis = "x" THEN terrain.vertices[i].x ELSE terrain.vertices[i].z],
          Len(terrain.vertices))

(* C16: once the terrain is centred, the mean of the vertex x values and the
   mean of the vertex z values are 0 to within the resolution of lengths (the
   sum over all vertices is smaller in magnitude than the vertex count), x and
   z are the un-centred coordinates minus the recorded offset, and the y of
   the vertex at grid row r (counted from the south), column c is the smoothed
   elevation of provider row R+1-r, column c: y is not shifted. *)
C16_CenteredXZOnly ==
    Centred =>
        LET R   == NumRows(elevation_data)
            C   == NumCols(elevation_data)
            sm  == Smooth(elevation_data, config.sigma)
            raw == UncentredTerrain(elevation_data, bbox, config.sigma).vertices
        IN  /\ Abs(AxisSum("x")) < Len(terrain.vertices)
            /\ Abs(AxisSum("z")) < Len(terrain.vertices)
            /\ \A r \in 1..R : \A c \in 1..C :
                  LET v == terrain.vertices[(r - 1) * C + c]
                      u == raw[(r - 1) * C + c]
                  IN  /\ v.y = sm[R + 1 - r][c]
                      /\ v.x = u.x - terrain.offset.x
                      /\ v.z = u.z - terrain.offset.z

\* a centred terrain whose vertices were moved by the centring and whose
\* elevations were changed by the smoothing
C16_Witness ==
    /\ Centred
    /\ terrain.offset # [x |-> 0, z |-> 0]
    /\ Smooth(elevation_data, config.sigma) # elevation_data
    /\ \E i \in 1..Len(terrain.vertices) : terrain.vertices[i].y # 0

-----------------------------------------------------------------------------
(* Exporter: export(scene, texture) -> (objText, mtlText, textureBytes).
   The texts are sequences of lines; a coordinate is written in metres with
   three decimals. *)

Qualities == {"low", "medium", "high", "ultra"}

\* the coarse ranges expected of a scene of the given quality tier (vertex
\* count, face count, output size in lines), at the scale of the scenes here
SanityBounds(quality) ==
    CASE quality = "low"    -> [min_vertices |-> 3, max_vertices |-> 10,
                                min_faces |-> 1, max_faces |-> 12, max_size |-> 40]
      [] quality = "medium" -> [min_vertices |-> 3, max_vertices |-> 12,
                                min_faces |-> 1, max_faces |-> 16, max_size |-> 60]
      [] quality = "high"   -> [min_vertices |-> 3, max_vertices |-> 20,
                                min_faces |-> 1, max_faces |-> 24, max_size |-> 100]
      [] OTHER              -> [min_vertices |-> 9, max_vertices |-> 40,
                                min_faces |-> 1, max_faces |-> 48, max_size |-> 200]

\* a coordinate written without its sign
FormatCoordUnsigned(n, perMetre) ==
    [neg   |-> FALSE,
     whole |-> Abs(n) \div perMetre,
     milli |-> ((Abs(n) % perMetre) * 1000) \div perMetre]

\* the text of a coordinate given in 1/perMetre metres: sign, whole metres,
\* three decimals
FormatCoord(n, perMetre) ==
    [neg   |-> n < 0,
     whole |-> Abs(n) \div perMetre,
     milli |-> ((Abs(n) % perMetre) * 1000) \div perMetre]

\* "v x y z": x and z are metres, y is decimetres
VertexLine(v) ==
    [op |-> "v", x |-> FormatCoord(v.x, 1), y |-> FormatCoord(v.y, 10),
     z |-> FormatCoord(v.z, 1)]

\* smallest and largest value of f[1..n]
Lowest(f, n) == CHOOSE m \in {f[i] : i \in 1..n} : \A i \in 1..n : m <= f[i]

Highest(f, n) == CHOOSE m \in {f[i] : i \in 1..n} : \A i \in 1..n : m >= f[i]

\* "vt u v": planar projection of x/z over the extent of the scene, per mille
TexCoordLine(s, i) ==
    LET n  == Len(s.vertices)
        xs == [k \in 1..n |-> s.vertices[k].x]
        zs == [k \in 1..n |-> s.vertices[k].z]
    IN  [op |-> "vt",
         u |-> ((s.vertices[i].x - Lowest(xs, n)) * 1000) \div (Highest(xs, n) - Lowest(xs, n)),
         v |-> ((s.vertices[i].z - Lowest(zs, n)) * 1000) \div (Highest(zs, n) - Lowest(zs, n))]

\* "vn": the face's normal, kept as the sign of its vertical component
NormalLine(s, k) ==
    LET a == s.vertices[s.faces[k][1] + 1]
        b == s.vertices[s.faces[k][2] + 1]
        c == s.vertices[s.faces[k][3] + 1]
        ny == (b.z - a.z) * (c.x - a.x) - (b.x - a.x) * (c.z - a.z)
    IN  [op |-> "vn", up |-> IF ny > 0 THEN 1 ELSE IF ny < 0 THEN -1 ELSE 0]

\* "f a/a/k b/b/k c/c/k": indices are 1-based in the file
FaceLine(s, k) ==
    [op |-> "f", v |-> [j \in 1..3 |-> s.faces[k][j] + 1], vn |-> k]

\* every face written under the material of the terrain
ObjTextOneGroup(s) ==
    <<[op |-> "mtllib", name |-> "scene.mtl"]>>
    \o [i \in 1..Len(s.vertices) |-> VertexLine(s.vertices[i])]
    \o [i \in 1..Len(s.vertices) |-> TexCoordLine(s, i)]
    \o [k \in 1..Len(s.faces) |-> NormalLine(s, k)]
    \o <<[op |-> "usemtl", name |-> "terrain"]>>
    \o [k \in 1..Len(s.faces) |-> FaceLine(s, k)]

\* the mesh file: one material library, vertices, texture coordinates,
\* normals, then the faces of the terrain and the faces of the buildings
ObjText(s) ==
    <<[op |-> "mtllib", name |-> "scene.mtl"]>>
    \o [i \in 1..Len(s.vertices) |-> VertexLine(s.vertices[i])]
    \o [i \in 1..Len(s.vertices) |-> TexCoordLine(s, i)]
    \o [k \in 1..Len(s.faces) |-> NormalLine(s, k)]
    \o <<[op |-> "usemtl", name |-> "terrain"]>>
    \o [k \in 1..s.terrain_faces |-> FaceLine(s, k)]
    \o <<[op |-> "usemtl", name |-> "buildings"]>>
    \o [k \in 1..(Len(s.faces) - s.terrain_faces) |-> FaceLine(s, s.terrain_faces + k)]

\* the material file: the terrain's satellite texture, the buildings' flat material
MtlText(texture) ==
    <<[op |-> "newmtl", name |-> "terrain"], [op |-> "map_Kd", name |-> texture],
      [op |-> "newmtl", name |-> "buildings"], [op |-> "Kd", name |-> "flat"]>>

\* counts and size within the ranges of the tier
WithinSanityBounds(s, obj, quality) ==
    LET b == SanityBounds(quality)
    IN  /\ b.min_vertices <= Len(s.vertices) /\ Len(s.vertices) <= b.max_vertices
        /\ b.min_faces <= Len(s.faces) /\ Len(s.faces) <= b.max_faces
        /\ Len(obj) <= b.max_size

ExportErrorOf(s, obj) ==
    [tag |-> "error", kind |-> "ExportError", vertices |-> Len(s.vertices),
     faces |-> Len(s.faces), size |-> Len(obj)]

ExportFootprints ==
    { Footprint(<<Tri(0, 0)>>, Some(120), Some(40), "office", TRUE),
      Footprint(<<Rect(600, 600)>>, Absent, Absent, "house", TRUE),
      Footprint(<<Flat(-3000, -3000)>>, Some(90), Absent, "residential", TRUE) }

InitExport ==
    /\ pc = "start"
    /\ \E tc \in WorkerTerrainCases, q \in Qualities, R \in 2..MaxRows :
          /\ elevation_data = ProviderGrid(tc.kind, R, 2)
          /\ grid_shape = [rows |-> R, cols |-> 2]
          /\ bbox = BboxOf(R, 2, tc.spacing)
          /\ config = [sigma |-> tc.sigma, default_height |-> 100, quality |-> q,
                       texture |-> "satellite.png"]
    /\ building_data \in SeqsUpTo(ExportFootprints, MaxFootprints)
    /\ terrain = NoTerrain
    /\ building_meshes = << >>
    /\ samples = << >>
    /\ stats = << >>
    /\ scene = NoScene
    /\ JobExtrasIdle
    /\ bounds = NoBounds
    /\ validation = NotValidated
    /\ UiIdle
    /\ GenerateIdle

\* the export without the sanity check: the file is always written
ExportUnchecked ==
    /\ pc = "done"
    /\ export_result' = [tag |-> "export", obj |-> ObjText(scene),
                         mtl |-> MtlText(config.texture), texture |-> config.texture]
    /\ error' = error
    /\ pc' = "exported"
    /\ UNCHANGED <<elevation_data, bbox, config, building_data, terrain, building_meshes,
                   samples, stats, scene, grid_shape, workers>>
    /\ UNCHANGED <<frontVars, genVars>>

\* export(scene, texture): the texts are produced, the sanity bounds checked,
\* and either the files or an ExportError returned
Export ==
    /\ pc = "done"
    /\ LET obj == ObjText(scene)
       IN  IF WithinSanityBounds(scene, obj, config.quality)
           THEN /\ export_result' = [tag |-> "export", obj |-> obj,
                                     mtl |-> MtlText(config.texture),
                                     texture |-> config.texture]
                /\ error' = error
                /\ pc' = "exported"
           ELSE /\ export_result' = export_result
                /\ error' = ExportErrorOf(scene, obj)
                /\ pc' = "failed"
    /\ UNCHANGED <<elevation_data, bbox, config, building_data, terrain, building_meshes,
                   samples, stats, scene, grid_shape, workers>>
    /\ UNCHANGED <<frontVars, genVars>>

NextExport == BuildTerrain \/ ExtrudeNext \/ MergeScene \/ Export

SpecExport == InitExport /\ [][NextExport]_vars

(* C17: an export has ended in success exactly when the scene's vertex count,
   face count and the size of the mesh file are within the sanity bounds of
   the requested quality tier; a success carries the file and no error; a
   failure carries one ExportError with the scene's vertex count, face count
   and the size the file would have had, and no file. *)
C17_SanityBounds ==
    pc \in {"exported", "failed"} =>
        LET b  == SanityBounds(config.quality)
            V  == Len(scene.vertices)
            F  == Len(scene.faces)
            S  == 3 + 2 * V + 2 * F
            ok == /\ V >= b.min_vertices /\ V <= b.max_vertices
                  /\ F >= b.min_faces /\ F <= b.max_faces
                  /\ S <= b.max_size
        IN  /\ pc = "exported" <=> ok
            /\ pc = "exported" =>
                  /\ error = NoError
                  /\ export_result # NoExport
                  /\ Len(export_result.obj) = S
            /\ pc = "failed" =>
                  /\ export_result = NoExport
                  /\ error = [tag |-> "error", kind |-> "ExportError", vertices |-> V,
                              faces |-> F, size |-> S]

\* a scene refused for its size alone: counts within the tier, file too long
C17_Witness ==
    /\ pc = "failed"
    /\ error # NoError
    /\ error.kind = "ExportError"
    /\ error.vertices <= SanityBounds(config.quality).max_vertices
    /\ error.faces <= SanityBounds(config.quality).max_faces
    /\ error.size > SanityBounds(config.quality).max_size

\* a scene with buildings exported with success
C17_WitnessSuccess ==
    /\ pc = "exported"
    /\ Len(scene.faces) > scene.terrain_faces


(* Reading a mesh file back *)

\* the value of a coordinate text, in millimetres
ParseCoord(t) == (IF t.neg THEN -1 ELSE 1) * (t.whole * 1000 + t.milli)

IsVertexLine(l) == l.op = "v"

IsFaceLine(l) == l.op = "f"

IsMtllibLine(l) == l.op = "mtllib"

\* the material in force at line k: that of the last "usemtl" before it
GroupAt(lines, k) ==
    LET us == {j \in 1..(k - 1) : lines[j].op = "usemtl"}
    IN  IF us = {} THEN "none"
        ELSE lines[CHOOSE j \in us : \A i \in us : i <= j].name

\* positions of the face lines, in file order
FacePositions(lines) ==
    LET P == {k \in 1..Len(lines) : IsFaceLine(lines[k])}
    IN  [i \in 1..Cardinality(P) |->
            CHOOSE k \in P : Cardinality({j \in P : j < k}) = i - 1]

\* vertices in millimetres, faces with 0-based indices and their material
\* group, and the number of material-library references
ParseObj(lines) ==
    LET vl == SelectSeq(lines, IsVertexLine)
        fp == FacePositions(lines)
    IN  [vertices |-> [i \in 1..Len(vl) |->
                          [x |-> ParseCoord(vl[i].x), y |-> ParseCoord(vl[i].y),
                           z |-> ParseCoord(vl[i].z)]],
         faces    |-> [i \in 1..Len(fp) |->
                          [v |-> [j \in 1..3 |-> lines[fp[i]].v[j] - 1],
                           group |-> GroupAt(lines, fp[i])]],
         mtllibs  |-> Len(SelectSeq(lines, IsMtllibLine))]

\* the bounding box of a sequence of points
BoundingBox(points) ==
    LET n == Len(points)
    IN  [min |-> [x |-> Lowest([i \in 1..n |-> points[i].x], n),
                  y |-> Lowest([i \in 1..n |-> points[i].y], n),
                  z |-> Lowest([i \in 1..n |-> points[i].z], n)],
         max |-> [x |-> Highest([i \in 1..n |-> points[i].x], n),
                  y |-> Highest([i \in 1..n |-> points[i].y], n),
                  z |-> Highest([i \in 1..n |-> points[i].z], n)]]

\* the scene's vertices in millimetres (x, z are metres, y decimetres)
SceneMillimetres(s) ==
    [i \in 1..Len(s.vertices) |->
        [x |-> s.vertices[i].x * 1000, y |-> s.vertices[i].y * 100,
         z |-> s.vertices[i].z * 1000]]

Exported == pc = "exported" /\ export_result # NoExport

(* C18: re-parsing the mesh file of a successful export gives as many
   vertices and as many faces as the scene has, the same bounding box to the
   millimetre, and face indices that are the scene's, also when the list of
   building meshes holds None entries. *)
C18_RoundTrip ==
    Exported =>
        LET p == ParseObj(export_result.obj)
        IN  /\ Len(p.vertices) = Len(scene.vertices)
            /\ Len(p.faces) = Len(scene.faces)
            /\ BoundingBox(p.vertices) = BoundingBox(SceneMillimetres(scene))
            /\ \A i \in 1..Len(p.faces) : p.faces[i].v = scene.faces[i]

\* an exported scene with a building, a None entry before it, vertices on
\* both sides of the origin and an elevation that is not a whole metre
C18_Witness ==
    /\ Exported
    /\ Len(building_meshes) = 2
    /\ building_meshes[1] = NoneMesh
    /\ building_meshes[2] # NoneMesh
    /\ \E i \in 1..Len(scene.vertices) : scene.vertices[i].x < 0
    /\ \E i \in 1..Len(scene.vertices) : scene.vertices[i].y % 10 # 0

(* C19: in the mesh file of a successful export, the i-th face line is the
   i-th face of the scene and lies in exactly one material group, "terrain"
   for the terrain's faces and "buildings" for every other face, and the file
   has exactly one material-library line. *)
C19_MaterialGroups ==
    Exported =>
        LET p == ParseObj(export_result.obj)
        IN  /\ p.mtllibs = 1
            /\ Len(p.faces) = Len(scene.faces)
            /\ \A i \in 1..Len(p.faces) :
                  /\ p.faces[i].v = scene.faces[i]
                  /\ p.faces[i].group \in {"terrain", "buildings"}
                  /\ p.faces[i].group = "terrain" <=> i <= scene.terrain_faces
                  /\ p.faces[i].group = "buildings" <=> i > scene.terrain_faces

\* an exported scene with faces in both groups
C19_Witness ==
    /\ Exported
    /\ scene.terrain_faces > 0
    /\ Len(scene.faces) > scene.terrain_faces
    /\ \E k \in 1..Len(export_result.obj) :
          /\ export_result.obj[k].op = "f"
          /\ GroupAt(export_result.obj, k) = "buildings"

-----------------------------------------------------------------------------
(* Footprints with several outer rings (multi-polygon relations) *)

MultiRingFootprints ==
    { Footprint(<<Tri(0, 0), Tri(100, 70)>>, Some(120), Absent, "office", TRUE),
      Footprint(<<Rect(600, 600), Tri(400, 400), Tri(200, 500)>>, Absent, Some(2),
                "house", TRUE),
      Footprint(<<Tri(300, 100), Rect(200, 200)>>, Absent, Absent, "residential", FALSE),
      Footprint(<<Tri(500, 100), Flat(600, 100)>>, Absent, Absent, "house", TRUE),
      Footprint(<<Tri(700, 700)>>, Absent, Absent, "house", TRUE) }

InitMultiRing ==
    /\ pc = "start"
    /\ \E tc \in WorkerTerrainCases :
          /\ elevation_data = ProviderGrid(tc.kind, 2, 2)
          /\ grid_shape = [rows |-> 2, cols |-> 2]
          /\ bbox = BboxOf(2, 2, tc.spacing)
          /\ config = [sigma |-> tc.sigma, default_height |-> 100]
    /\ building_data \in SeqsUpTo(MultiRingFootprints, MaxFootprints)
    /\ terrain = NoTerrain
    /\ building_meshes = << >>
    /\ samples = << >>
    /\ stats = << >>
    /\ scene = NoScene
    /\ JobExtrasIdle
    /\ bounds = NoBounds
    /\ validation = NotValidated
    /\ UiIdle
    /\ GenerateIdle

SpecMultiRing == InitMultiRing /\ [][Next]_vars

\* the outer rings of footprint i in local coordinates, repaired
LocalRingsOf(i) ==
    [k \in 1..Len(building_data[i].rings) |->
        RepairRing(LocalRing(terrain, building_data[i].rings[k]))]

\* number of corners of the shape extruded for ring k of footprint i: the
\* ring's own corners, or the four corners of its bounding box
ShapeCorners(i, k) ==
    IF building_data[i].extrude_ok THEN Len(LocalRingsOf(i)[k]) ELSE 4

\* number of mesh vertices that precede the block of ring k of footprint i
BlockStart(i, k) == SumTo([j \in 1..(k - 1) |-> 2 * ShapeCorners(i, j)], k - 1)

\* the horizontal positions of the mesh vertices in the block of ring k
BlockPositions(i, k) ==
    {[x |-> building_meshes[i].vertices[BlockStart(i, k) + m].x,
      z |-> building_meshes[i].vertices[BlockStart(i, k) + m].z] :
        m \in 1..(2 * ShapeCorners(i, k))}

\* the corners of ring k of footprint i
RingPositions(i, k) == {LocalRingsOf(i)[k][m] : m \in 1..Len(LocalRingsOf(i)[k])}

\* the horizontal extent of a set of positions
ExtentOf(P) ==
    [x0 |-> CHOOSE v \in {p.x : p \in P} : \A p \in P : v <= p.x,
     x1 |-> CHOOSE v \in {p.x : p \in P} : \A p \in P : v >= p.x,
     z0 |-> CHOOSE v \in {p.z : p \in P} : \A p \in P : v <= p.z,
     z1 |-> CHOOSE v \in {p.z : p \in P} : \A p \in P : v >= p.z]

\* the block (ring number) a 0-based vertex index of footprint i's mesh lies in
BlockOf(i, v) ==
    CHOOSE k \in 1..Len(building_data[i].rings) :
        BlockStart(i, k) <= v /\ v < BlockStart(i, k) + 2 * ShapeCorners(i, k)

(* C20: the mesh of a footprint with several outer rings has, for every outer
   ring and in ring order, a block of vertices of its own: two vertices per
   corner of the ring's shape, at the ring's corners when the polygon is
   extruded and over the ring's own extent in any case; the blocks make up
   the whole mesh, every face has its three vertices in one block, and every
   block has faces: no ring is left out, none is merged with another. *)
C20_AllOuterRings ==
    \A i \in 1..Len(building_meshes) :
        (Len(building_data[i].rings) >= 2 /\ building_meshes[i] # NoneMesh) =>
            LET n == Len(building_data[i].rings)
                m == building_meshes[i]
            IN  /\ Len(m.vertices) = BlockStart(i, n + 1)
                /\ \A k \in 1..n :
                      /\ ExtentOf(BlockPositions(i, k)) = ExtentOf(RingPositions(i, k))
                      /\ building_data[i].extrude_ok =>
                            BlockPositions(i, k) = RingPositions(i, k)
                      /\ \E f \in 1..Len(m.faces) : BlockOf(i, m.faces[f][1]) = k
                /\ \A f \in 1..Len(m.faces) :
                      /\ BlockOf(i, m.faces[f][1]) = BlockOf(i, m.faces[f][2])
                      /\ BlockOf(i, m.faces[f][1]) = BlockOf(i, m.faces[f][3])

\* a finished job with a three-ring footprint extruded as polygons and a
\* two-ring footprint extruded as bounding boxes
C20_Witness ==
    /\ pc = "done"
    /\ \E i \in 1..Len(building_meshes) :
          /\ Len(building_data[i].rings) = 3
          /\ building_meshes[i] # NoneMesh
    /\ \E i \in 1..Len(building_meshes) :
          /\ Len(building_data[i].rings) = 2
          /\ ~building_data[i].extrude_ok
          /\ building_meshes[i] # NoneMesh

-----------------------------------------------------------------------------
(* Further properties of the terrain and of the sampler *)

\* index of the vertex at grid row r, column c (0-based) of the built terrain
GridIndex(r, c) == r * terrain.grid_dims.cols + c

\* the elements of a face
FaceSet(f) == {f[1], f[2], f[3]}

(* C21: the faces of a built terrain are, cell by cell in row-major order,
   the two triangles [v0, v1, v2] and [v1, v3, v2] of every cell (r, c) with
   0 <= r < R-1 and 0 <= c < C-1 and nothing else; every face index is a
   vertex index in [0, R*C), no triangle repeats an index, and the two
   triangles of a cell share exactly the edge v1-v2. *)
C21_Triangulation ==
    terrain # NoTerrain =>
        LET R == terrain.grid_dims.rows
            C == terrain.grid_dims.cols
        IN  /\ Len(terrain.faces) = 2 * (R - 1) * (C - 1)
            /\ \A r \in 0..(R - 2) : \A c \in 0..(C - 2) :
                  LET k  == 2 * (r * (C - 1) + c)
                      t1 == terrain.faces[k + 1]
                      t2 == terrain.faces[k + 2]
                  IN  /\ t1 = <<GridIndex(r, c), GridIndex(r, c + 1), GridIndex(r + 1, c)>>
                      /\ t2 = <<GridIndex(r, c + 1), GridIndex(r + 1, c + 1),
                                GridIndex(r + 1, c)>>
                      /\ FaceSet(t1) \cap FaceSet(t2)
                            = {GridIndex(r, c + 1), GridIndex(r + 1, c)}
            /\ \A f \in 1..Len(terrain.faces) :
                  /\ Cardinality(FaceSet(terrain.faces[f])) = 3
                  /\ FaceSet(terrain.faces[f]) \subseteq 0..(R * C - 1)

\* a terrain with an interior vertex: at least two cells in each direction
C21_Witness ==
    /\ terrain # NoTerrain
    /\ terrain.grid_dims.rows >= 3
    /\ terrain.grid_dims.cols >= 3
    /\ Len(terrain.faces) >= 8


(* C22: in a built terrain the vertex in vertex-row r, column c (0-based) has
   the (smoothed) elevation of provider row rows-1-r, column c, vertex row 0
   lies on the southern edge of the bbox and the last vertex row on the
   northern edge, and the elevation array kept in the grid metadata has the
   same value at row r, column c: the flip is applied once, and vertices and
   sampler agree on the orientation. *)
C22_SingleFlip ==
    terrain # NoTerrain =>
        LET R  == NumRows(elevation_data)
            C  == NumCols(elevation_data)
            sm == Smooth(elevation_data, config.sigma)
        IN  \A r \in 0..(R - 1) : \A c \in 0..(C - 1) :
                /\ terrain.vertices[GridIndex(r, c) + 1].y = sm[R - r][c + 1]
                /\ terrain.elevation[r + 1][c + 1] = sm[R - r][c + 1]
                /\ VertexElevation(terrain, r, c) = terrain.vertices[GridIndex(r, c) + 1].y
                /\ r = 0 => terrain.vertices[GridIndex(r, c) + 1].z
                              = ToLocal(bbox, bbox.south, bbox.west).z - terrain.offset.z
                /\ r = R - 1 => terrain.vertices[GridIndex(r, c) + 1].z
                                  = ToLocal(bbox, bbox.north, bbox.west).z - terrain.offset.z

\* a terrain of three rows whose northern and southern elevations differ,
\* built without smoothing: the vertex rows hold the provider's rows reversed
C22_Witness ==
    /\ terrain # NoTerrain
    /\ config.sigma = 0
    /\ NumRows(elevation_data) = 3
    /\ elevation_data[1] # elevation_data[3]
    /\ terrain.vertices[1].y = elevation_data[3][1]
    /\ terrain.vertices[1].y # elevation_data[1][1]


\* variance of the elevations of all terrain vertices (the candidate set of
\* the fallback when the grid has no more vertices than the neighbour count)
VertexVariance ==
    LET n    == Len(terrain.vertices)
        mean == SumTo([i \in 1..n |-> terrain.vertices[i].y], n) \div n
    IN  SumTo([i \in 1..n |-> (terrain.vertices[i].y - mean) * (terrain.vertices[i].y - mean)],
              n) \div n

\* squared distance from point q to terrain vertex number i (1-based)
VertexDist2(i, q) ==
    (terrain.vertices[i].x - q.x) * (terrain.vertices[i].x - q.x)
  + (terrain.vertices[i].z - q.z) * (terrain.vertices[i].z - q.z)

\* the sample of footprint i was answered by the fallback path
FromFallback(i) == samples[i].sampled /\ samples[i].result.method \in {"idw", "nearest"}

(* C23: for every sample answered in the fallback path, when the variance of
   the candidate vertices' elevations is above the 15 m threshold the answer
   is the elevation of a vertex at the least distance from the query point
   (method nearest), and when it is at or below the threshold the answer is
   the inverse-distance-weighted average (method idw). *)
C23_VarianceGuard ==
    \A i \in 1..Processed :
        FromFallback(i) =>
            LET q == samples[i].query
                r == samples[i].result
                n == Len(terrain.vertices)
            IN  /\ n <= NeighborCount
                /\ VertexVariance > VarianceThreshold =>
                      /\ r.method = "nearest"
                      /\ \E v \in 1..n :
                            /\ \A u \in 1..n : VertexDist2(v, q) <= VertexDist2(u, q)
                            /\ r.value = terrain.vertices[v].y
                /\ VertexVariance <= VarianceThreshold =>
                      /\ r.method = "idw"
                      /\ r.value = InverseDistanceWeighted(terrain, VertexIds(terrain),
                                                           Dist2(terrain, q))

\* a sample on a cliff answered by the nearest vertex, where the weighted
\* average would have given another elevation
C23_Witness ==
    \E i \in 1..Processed :
        /\ FromFallback(i)
        /\ samples[i].result.method = "nearest"
        /\ VertexVariance > VarianceThreshold
        /\ samples[i].result.value
              # InverseDistanceWeighted(terrain, VertexIds(terrain),
                                        Dist2(terrain, samples[i].query))

\* a sample on gentle terrain answered by the weighted average
C23_WitnessWeighted ==
    \E i \in 1..Processed :
        /\ FromFallback(i)
        /\ samples[i].result.method = "idw"
        /\ VertexVariance <= VarianceThreshold


\* the kinds of per-building failure
FailureKinds == {"InvalidGeometry", "OutOfBounds"}

\* the failure-count summary: number of recorded failures of the given kind
FailureCount(kind) == Len(SelectSeq(stats, LAMBDA e : e.reason = kind))

\* positions of the None entries of the result sequence
NoneEntries == {i \in 1..Len(building_meshes) : building_meshes[i] = NoneMesh}

(* C24: when a job has finished with a scene, the result sequence has one
   entry per input footprint, the failure counts of all kinds sum to the
   number of None entries, every None entry has exactly one recorded failure
   of a known kind and no mesh has one, so successes plus failures equal the
   number of input footprints. *)
C24_SummaryConsistent ==
    pc = "done" =>
        /\ Len(building_meshes) = Len(building_data)
        /\ FailureCount("InvalidGeometry") + FailureCount("OutOfBounds")
              = Cardinality(NoneEntries)
        /\ \A k \in 1..Len(stats) :
              /\ stats[k].reason \in FailureKinds
              /\ stats[k].index \in NoneEntries
        /\ \A i \in NoneEntries :
              Cardinality({k \in 1..Len(stats) : stats[k].index = i}) = 1
        /\ (Len(building_meshes) - Cardinality(NoneEntries)) + Len(stats)
              = Len(building_data)

\* a finished job with one failure of each kind
C24_Witness ==
    /\ pc = "done"
    /\ scene # NoScene
    /\ FailureCount("InvalidGeometry") = 1
    /\ FailureCount("OutOfBounds") = 1

\* a finished job with a building and a footprint dropped for its sample
C24_WitnessMixed ==
    /\ pc = "done"
    /\ FailureCount("OutOfBounds") = 1
    /\ Len(building_meshes) - Cardinality(NoneEntries) = 1

-----------------------------------------------------------------------------
(* Properties of generateMesh's failure path *)

\* the reply to the last request sent
LastReply == requests[Len(requests)].reply

(* C25: whenever generateMesh has rejected, its last request was a /generate
   answered not ok, a progress request that failed or reported status
   "error", or a download that was not ok or whose body could not be read;
   if an onProgress callback was given, the last ProgressInfo handed to it
   has status "error" and percent 0 (and without a callback none was handed
   over); and the download link has not been clicked. *)
C25_RejectReportsError ==
    gm_pc = "rejected" =>
        /\ Len(requests) >= 1
        /\ LastReply \in {"not ok", "error", "body lost"}
        /\ on_progress => /\ progress # NoProgress
                          /\ progress.status = "error"
                          /\ progress.percent = 0
        /\ ~on_progress => progress = NoProgress
        /\ ~link_clicked

\* a call with a callback that rejected on a poll reporting "error", after a
\* poll that had reported progress
C25_Witness ==
    /\ gm_pc = "rejected"
    /\ on_progress
    /\ Len(requests) >= 3
    /\ LastReply = "error"
    /\ requests[Len(requests) - 1].reply = "processing"
    /\ progress.percent = 0

\* a call that rejected on the download
C25_WitnessDownload ==
    /\ gm_pc = "rejected"
    /\ on_progress
    /\ requests[Len(requests)].op = "download"


-----------------------------------------------------------------------------
(* The DownloadButton component (components/AreaPreview.tsx and
   components/DownloadButton.tsx).  The map hands it the selected bounds; a
   click on the enabled button runs handleGenerate, which awaits generateMesh
   and then runs its catch and finally blocks.  on_progress tells the two
   versions apart: the one of AreaPreview.tsx passes a callback, keeps a
   progress state and arms a 2-second timer; the one of DownloadButton.tsx
   does neither.  State updates made by one handler are applied together; the
   continuation of a settled generateMesh runs before any later event or
   timer. *)

\* largest number of generations started on one mounted button
MaxGenerations == 2

\* the bounds the map may hand to the button: none, a square of about 3 km
\* (valid), a square of about 220 m (too small)
ButtonBounds ==
    {NoBounds,
     [tag |-> "bbox", north |-> 13500, south |-> -13500, east |-> 13500, west |-> -13500],
     [tag |-> "bbox", north |-> 1000, south |-> -1000, east |-> 1000, west |-> -1000]}

\* const validation = bounds ? validateBboxSize(bounds) : { valid: false }
RenderValidation(b) ==
    IF b = NoBounds
    THEN [tag |-> "result", valid |-> FALSE, error |-> ""]
    ELSE validateBboxSize(b)

\* isDisabled without the isGenerating term
isDisabledIgnoringGenerating == bounds = NoBounds \/ ~validation.valid

\* const isDisabled = !bounds || !validation.valid || isGenerating
isDisabled == bounds = NoBounds \/ ~validation.valid \/ isGenerating

\* generateMesh has settled and handleGenerate's catch/finally has not run yet
ContinuationPending == in_flight > 0 /\ gm_pc \in {"resolved", "rejected"}

\* the button as mounted, without bounds
InitButton ==
    /\ bounds = NoBounds
    /\ validation = RenderValidation(NoBounds)
    /\ ButtonIdle
    /\ SelectorIdle
    /\ gm_pc = "idle"
    /\ client_job_id = ""
    /\ job_id = ""
    /\ progress = NoProgress
    /\ requests = << >>
    /\ on_progress \in BOOLEAN
    /\ link_clicked = FALSE
    /\ pc = "start"
    /\ elevation_data = << >>
    /\ grid_shape = [rows |-> 0, cols |-> 0]
    /\ JobExtrasIdle
    /\ bbox = NoBounds
    /\ config = [sigma |-> 0, default_height |-> 100]
    /\ building_data = << >>
    /\ terrain = NoTerrain
    /\ building_meshes = << >>
    /\ samples = << >>
    /\ stats = << >>
    /\ scene = NoScene

\* the parent renders the button with other bounds
SetBounds ==
    /\ ~ContinuationPending
    /\ \E b \in ButtonBounds \ {bounds} :
          /\ bounds' = b
          /\ validation' = RenderValidation(b)
    /\ UNCHANGED <<genVars, buttonVars, selectorVars, coreVars>>

\* a click on the button (a disabled button has no clicks): handleGenerate up
\* to the call of generateMesh
handleGenerate ==
    /\ ~ContinuationPending
    /\ ~isDisabled
    /\ bounds # NoBounds
    /\ generations < MaxGenerations
    /\ isGenerating' = TRUE
    /\ buttonError' = NoMessage
    /\ progress' = IF on_progress
                   THEN [percent |-> 0, message |-> "Starting...", status |-> "processing"]
                   ELSE progress
    /\ gm_pc' = "start"
    /\ client_job_id' \in JobIds
    /\ job_id' = ""
    /\ requests' = << >>
    /\ link_clicked' = FALSE
    /\ in_flight' = in_flight + 1
    /\ generations' = generations + 1
    /\ UNCHANGED <<timers, on_progress, bounds, validation, selectorVars, coreVars>>

\* handleGenerate after the await with setIsGenerating(false) at the end of
\* the try block instead of in finally
SettleResetInTry ==
    /\ ContinuationPending
    /\ IF gm_pc = "rejected"
       THEN /\ buttonError' = [tag |-> "message", text |-> requests[Len(requests)].reply]
            /\ progress' = NoProgress
            /\ UNCHANGED isGenerating
       ELSE /\ isGenerating' = FALSE
            /\ UNCHANGED <<buttonError, progress>>
    /\ timers' = IF on_progress THEN timers + 1 ELSE timers
    /\ in_flight' = in_flight - 1
    /\ UNCHANGED <<generations, gm_pc, client_job_id, job_id, requests, on_progress,
                   link_clicked, bounds, validation, selectorVars, coreVars>>

\* handleGenerate after the await: catch (on a rejection: the error is shown,
\* the progress cleared), then finally (isGenerating reset, the timer armed)
Settle ==
    /\ ContinuationPending
    /\ IF gm_pc = "rejected"
       THEN /\ buttonError' = [tag |-> "message", text |-> requests[Len(requests)].reply]
            /\ progress' = NoProgress
       ELSE UNCHANGED <<buttonError, progress>>
    /\ isGenerating' = FALSE
    /\ timers' = IF on_progress THEN timers + 1 ELSE timers
    /\ in_flight' = in_flight - 1
    /\ UNCHANGED <<generations, gm_pc, client_job_id, job_id, requests, on_progress,
                   link_clicked, bounds, validation, selectorVars, coreVars>>

\* a timer armed by finally fires: setProgress(null)
TimerFires ==
    /\ ~ContinuationPending
    /\ timers > 0
    /\ progress' = NoProgress
    /\ timers' = timers - 1
    /\ UNCHANGED <<isGenerating, buttonError, in_flight, generations, gm_pc,
                   client_job_id, job_id, requests, on_progress, link_clicked,
                   bounds, validation, selectorVars, coreVars>>

NextButton ==
    SetBounds \/ handleGenerate \/ StartJob \/ Poll \/ Download \/ Settle \/ TimerFires

SpecButton == InitButton /\ [][NextButton]_vars

\* a generation starts in this step
GenerationStarts == generations' = generations + 1

\* C26: a generation is started only while bounds are selected, the bounds
\* pass validateBboxSize and no generation is in flight; so at most one
\* generateMesh call is in flight at any time, and isGenerating says whether
\* one is.
C26_OneInFlight ==
    /\ [](in_flight <= 1 /\ (isGenerating <=> in_flight = 1)
          /\ validation = RenderValidation(bounds))
    /\ [][GenerationStarts =>
            /\ bounds # NoBounds
            /\ validateBboxSize(bounds).valid
            /\ ~isGenerating
            /\ in_flight = 0
            /\ in_flight' = 1]_vars

\* a second generation is in flight, on bounds that are no longer valid
C26_Witness ==
    /\ generations = 2
    /\ in_flight = 1
    /\ gm_pc = "polling"
    /\ isDisabled
    /\ bounds # NoBounds
    /\ ~validation.valid


\* C27 (as claimed): while a generation is in flight, the progress indicator of
\* the button that keeps one is non-null: no timer of an earlier, finished
\* generation clears the progress of a later generation.
C27_Original == (on_progress /\ isGenerating) => progress # NoProgress

\* the timer of a finished generation is still pending while the next
\* generation is in flight
C27_StaleTimer == isGenerating /\ generations = 2 /\ timers > 0


\* The button with a backend that answers: every request is eventually
\* answered or fails, the job's status eventually is "complete" or "error"
\* (or a poll fails), and the continuation of a settled generateMesh runs.
SpecButtonLive ==
    /\ InitButton
    /\ [][NextButton]_vars
    /\ WF_vars(StartJob)
    /\ WF_vars(Poll /\ gm_pc' # "polling")
    /\ WF_vars(Download)
    /\ WF_vars(Settle)

\* the last generation has settled: generateMesh resolved or rejected and
\* handleGenerate has run to its end
Settled == in_flight = 0 /\ gm_pc \in {"resolved", "rejected"}

\* C28: every started generation eventually resets isGenerating to false,
\* whether generateMesh resolves or rejects; once it has settled, error is
\* non-null exactly when generateMesh rejected; a generation under way shows no
\* error, the previous one having been cleared at its start.
C28_GenerationSettles ==
    /\ [](Settled => (~isGenerating /\ (buttonError # NoMessage <=> gm_pc = "rejected")))
    /\ [](isGenerating => buttonError = NoMessage)
    /\ (isGenerating ~> ~isGenerating)

\* a generation has settled by a rejection: the button is usable again and
\* shows the error
C28_Witness ==
    /\ Settled
    /\ gm_pc = "rejected"
    /\ ~isGenerating
    /\ buttonError # NoMessage
    /\ ~isDisabled

\* the second generation is under way after a first one that was rejected has
\* left its timer behind; the first one's error is cleared
C28_WitnessCleared ==
    /\ generations = 2
    /\ isGenerating
    /\ timers > 0
    /\ buttonError = NoMessage
    /\ gm_pc = "polling"


-----------------------------------------------------------------------------
(* The BoundsSelector of the map (components/MapSelector.tsx): a rectangle
   is drawn with shift or ctrl held; the map's mousedown, mousemove and
   mouseup events arrive in any order (a button released outside the map
   sends no mouseup).  The handlers see the component's current state. *)

\* largest number of onBoundsChange calls recorded
MaxCalls == 2

\* positions of the pointer, as (lat, lng)
Points == {[lat |-> 0, lng |-> 0], [lat |-> 1, lng |-> 2], [lat |-> 2, lng |-> 1]}

\* new LatLngBounds(a, b): the smallest box holding both corners
LatLngBounds(a, b) ==
    [tag |-> "bbox",
     north |-> Max(a.lat, b.lat), south |-> Min(a.lat, b.lat),
     east |-> Max(a.lng, b.lng), west |-> Min(a.lng, b.lng)]

\* the selector as mounted, with or without a callback
InitSelector ==
    /\ isDrawing = FALSE
    /\ startPoint = NoPoint
    /\ dragging = TRUE
    /\ selection = NoBounds
    /\ calls = << >>
    /\ last_event = NoEvent
    /\ on_bounds_change \in BOOLEAN
    /\ ButtonIdle
    /\ GenerateIdle
    /\ bounds = NoBounds
    /\ validation = NotValidated
    /\ pc = "start"
    /\ elevation_data = << >>
    /\ grid_shape = [rows |-> 0, cols |-> 0]
    /\ JobExtrasIdle
    /\ bbox = NoBounds
    /\ config = [sigma |-> 0, default_height |-> 100]
    /\ building_data = << >>
    /\ terrain = NoTerrain
    /\ building_meshes = << >>
    /\ samples = << >>
    /\ stats = << >>
    /\ scene = NoScene

\* the mousedown handler starting a drawing whatever keys are held
MouseDownAnyKey ==
    /\ \E modifier \in BOOLEAN, p \in Points :
          /\ last_event' = [type |-> "mousedown", modifier |-> modifier]
          /\ Len(calls) < MaxCalls
          /\ dragging' = FALSE
          /\ isDrawing' = TRUE
          /\ startPoint' = p
          /\ selection' = NoBounds
    /\ UNCHANGED <<calls, on_bounds_change, bounds, validation, buttonVars, genVars,
                   coreVars>>

\* mousedown: with shift or ctrl held a drawing starts at the pointer
MouseDown ==
    /\ \E modifier \in BOOLEAN, p \in Points :
          /\ last_event' = [type |-> "mousedown", modifier |-> modifier]
          /\ IF modifier
             THEN /\ Len(calls) < MaxCalls
                  /\ dragging' = FALSE
                  /\ isDrawing' = TRUE
                  /\ startPoint' = p
                  /\ selection' = NoBounds
             ELSE UNCHANGED <<dragging, isDrawing, startPoint, selection>>
    /\ UNCHANGED <<calls, on_bounds_change, bounds, validation, buttonVars, genVars,
                   coreVars>>

\* mousemove: while drawing, the rectangle follows the pointer
MouseMove ==
    /\ \E modifier \in BOOLEAN, p \in Points :
          /\ last_event' = [type |-> "mousemove", modifier |-> modifier]
          /\ selection' = IF isDrawing /\ startPoint # NoPoint
                          THEN LatLngBounds(startPoint, p)
                          ELSE selection
    /\ UNCHANGED <<dragging, isDrawing, startPoint, calls, on_bounds_change, bounds,
                   validation, buttonVars, genVars, coreVars>>

\* mouseup: a drawing ends with the final rectangle handed to onBoundsChange;
\* in every case the selector is idle afterwards
MouseUp ==
    /\ \E modifier \in BOOLEAN, p \in Points :
          /\ last_event' = [type |-> "mouseup", modifier |-> modifier]
          /\ IF isDrawing /\ startPoint # NoPoint
             THEN /\ selection' = LatLngBounds(startPoint, p)
                  /\ calls' = IF on_bounds_change
                              THEN Append(calls, LatLngBounds(startPoint, p))
                              ELSE calls
             ELSE UNCHANGED <<selection, calls>>
    /\ isDrawing' = FALSE
    /\ startPoint' = NoPoint
    /\ dragging' = TRUE
    /\ UNCHANGED <<on_bounds_change, bounds, validation, buttonVars, genVars, coreVars>>

NextSelector == MouseDown \/ MouseMove \/ MouseUp

SpecSelector == InitSelector /\ [][NextSelector]_vars

\* the event handled in this step
Handles(type) == last_event'.type = type

\* C29: onBoundsChange is called only by a mouseup that ends a drawing, a
\* drawing begins only with a mousedown with shift or ctrl held, the call is
\* made once per drawing ended (when a callback was given) with
\* north >= south and east >= west; a mousedown without a modifier starts no
\* drawing; after every mouseup the selector is idle (isDrawing false,
\* startPoint null, dragging enabled).
C29_CallsOnlyOnDrawnBox ==
    /\ [](isDrawing => (startPoint # NoPoint /\ ~dragging))
    /\ [][/\ calls' # calls =>
                /\ Handles("mouseup")
                /\ isDrawing
                /\ on_bounds_change
                /\ Len(calls') = Len(calls) + 1
                /\ SubSeq(calls', 1, Len(calls)) = calls
                /\ calls'[Len(calls')].north >= calls'[Len(calls')].south
                /\ calls'[Len(calls')].east >= calls'[Len(calls')].west
                /\ calls'[Len(calls')] = selection'
                /\ \E p \in Points : calls'[Len(calls')] = LatLngBounds(startPoint, p)
          /\ (Handles("mouseup") /\ isDrawing /\ on_bounds_change) =>
                Len(calls') = Len(calls) + 1
          /\ (~isDrawing /\ isDrawing') =>
                (Handles("mousedown") /\ last_event'.modifier)
          /\ (Handles("mousedown") /\ ~last_event'.modifier) =>
                UNCHANGED <<isDrawing, startPoint, dragging, selection, calls>>
          /\ Handles("mouseup") =>
                (~isDrawing' /\ startPoint' = NoPoint /\ dragging')
       ]_vars

\* two rectangles have been drawn and reported, the second one a proper box,
\* and the selector is idle again
C29_Witness ==
    /\ on_bounds_change
    /\ Len(calls) = 2
    /\ calls[1] # calls[2]
    /\ last_event.type = "mouseup"
    /\ selection = calls[2]
    /\ selection.north > selection.south
    /\ selection.east > selection.west
    /\ ~isDrawing
    /\ startPoint = NoPoint
    /\ dragging


-----------------------------------------------------------------------------
(* generateMesh with a fair backend: the /generate request is eventually
   answered, the job's progress eventually is "complete" or "error" or a
   progress request fails, and the download request is eventually answered. *)

SpecGenerateLive ==
    /\ InitGenerate
    /\ [][NextGenerate]_vars
    /\ WF_vars(StartJob)
    /\ WF_vars(Poll /\ gm_pc' # "polling")
    /\ WF_vars(Download)

\* the answer to the progress request of this step
PollReply == requests'[Len(requests')].reply

\* C30: under a fair backend the poll loop terminates and generateMesh
\* resolves or rejects; the loop is left only on a status "complete" (to the
\* download) or on a status "error" or a failed request (rejecting); any
\* other status leaves the call in the loop.
C30_PollLoopTerminates ==
    /\ (gm_pc = "polling" ~> gm_pc \in {"resolved", "rejected"})
    /\ [][(gm_pc = "polling" /\ gm_pc' # "polling") =>
             /\ Len(requests') = Len(requests) + 1
             /\ requests'[Len(requests')].op = "progress"
             /\ PollReply \in {"complete", "error", "not ok"}
             /\ gm_pc' = IF PollReply = "complete" THEN "download" ELSE "rejected"]_vars
    /\ [][(gm_pc = "polling" /\ gm_pc' = "polling" /\ requests' # requests) =>
             PollReply \in {"processing", "queued", "unknown"}]_vars

\* the call resolved after three turns of the loop that only caused another
\* poll, one for each status that is neither "complete" nor "error"
C30_Witness ==
    /\ gm_pc = "resolved"
    /\ Len(requests) = 6
    /\ {requests[k].reply : k \in 2..4} = {"processing", "queued", "unknown"}
    /\ requests[5].reply = "complete"

=============================================================================
